---- MODULE Spec2Model ----
(***************************************************************************)
(* Batch PDF printer: the six front ends (two command-line tools, two     *)
(* terminal menus, two tkinter GUIs) with the print loop each of them      *)
(* carries, and the launcher of the Windows front ends.  A file is a       *)
(* natural number, its place in the print order of its directory (in the   *)
(* part on discovery and ordering a file has names); a text typed by the   *)
(* user is a sequence of one-character strings.                            *)
(***************************************************************************)
EXTENDS Integers, Sequences, FiniteSets, TLC

VARIABLES
    fe,                 \* the front end this process is
    mpc,                \* position of the main thread
    ui,                 \* stack of open modal dialogs (GUI), top = last
    dir_var,            \* GUI: the selected directory shown in the label
    current_directory,  \* menus: self.current_directory
    found_pdfs,         \* the discovered, ordered file list
    batch_var,          \* GUI: text of the batch-size field
    batch_size,         \* args.batch_size / self.batch_size
    delay,              \* Windows command line: args.delay
    is_printing,        \* GUI: self.is_printing
    print_btn,          \* GUI: state of the print button
    stop_btn,           \* GUI: state of the stop button (Linux GUI)
    search_btn,         \* GUI: state of the search button
    runs,               \* one record per started print run
    afterq,             \* GUI: callbacks queued with root.after(0, ...)
    searches,           \* GUI: directories of the search threads running
    nsearch,            \* number of searches started so far
    shown,              \* final summaries shown to the user, in order
    exit_status,        \* process exit status, NoExit while running
    batches,            \* batch plan computed by the batching step
    listing,            \* the listing of files last written out
    tree,               \* the PDF files under the root, when files have names
    test_prints,        \* what the printer tests handed to the print command
    dry_run_btn,        \* GUIs: state of the preview button (self.preview_btn of
                        \* the Linux GUI, self.dry_run_btn of the Windows GUI)
    size_text,          \* menus: the text last typed at a batch-size prompt
    nedits              \* GUIs: edits of the batch-size field made so far

vars == <<fe, mpc, ui, dir_var, current_directory, found_pdfs, batch_var,
          batch_size, delay, is_printing, print_btn, stop_btn, search_btn, runs,
          afterq, searches, nsearch, shown, exit_status, batches, listing,
          tree, test_prints, dry_run_btn, size_text, nedits>>

(***************************************************************************)
(* Bounds of the model.                                                    *)
(***************************************************************************)
MaxRuns == 2        \* print runs started per Linux GUI process
MaxWinGuiRuns == 1  \* print runs started per Windows GUI process
MaxMenuRuns == 1    \* print runs started per menu process
MaxSearches == 2    \* searches started per GUI process
MaxLen == 4         \* longest list given to the batching step alone
MaxB == 3           \* largest batch size given to the batching step alone
MaxExtras == 1      \* printer tests and previews made per process, taken together
MaxEdits == 1       \* edits of the batch-size field per GUI process

NoExit == 0 - 1
NoDir == "Geen map geselecteerd"

(***************************************************************************)
(* Sequences and Python arithmetic.                                        *)
(***************************************************************************)
Min(a, b) == IF a <= b THEN a ELSE b

RECURSIVE Concat(_)
Concat(ss) == IF ss = <<>> THEN <<>> ELSE Head(ss) \o Concat(Tail(ss))

IsPrefix(s, t) == Len(s) <= Len(t) /\ SubSeq(t, 1, Len(s)) = s

\* a // b and a % b of Python, for a >= 0 and b # 0 of either sign
PyFloorDiv(a, b) == IF b > 0 THEN a \div b ELSE 0 - (((a + (0 - b)) - 1) \div (0 - b))
PyMod(a, b) == a - b * PyFloorDiv(a, b)

\* L[i:j] of Python for 0 <= i, i <= j
Slice(L, i, j) == SubSeq(L, i + 1, Min(j, Len(L)))

\* list(range(0, n, step)) of Python for n >= 0 and step # 0
RangeFrom0(n, step) ==
    IF step < 0 \/ n = 0 THEN <<>>
    ELSE [k \in 1..(((n + step) - 1) \div step) |-> (k - 1) * step]

(***************************************************************************)
(* Texts: str.strip, str.lower, str.upper and int() on what the user      *)
(* types.                                                                  *)
(***************************************************************************)
Digits == {"0", "1", "2", "3", "4", "5", "6", "7", "8", "9"}
DigitVal == ("0" :> 0) @@ ("1" :> 1) @@ ("2" :> 2) @@ ("3" :> 3) @@ ("4" :> 4)
            @@ ("5" :> 5) @@ ("6" :> 6) @@ ("7" :> 7) @@ ("8" :> 8) @@ ("9" :> 9)

LowerOf == ("J" :> "j") @@ ("A" :> "a") @@ ("Y" :> "y") @@ ("E" :> "e")
           @@ ("S" :> "s") @@ ("N" :> "n") @@ ("B" :> "b") @@ ("R" :> "r")
           @@ ("P" :> "p") @@ ("D" :> "d") @@ ("F" :> "f")
UpperOf == ("j" :> "J") @@ ("a" :> "A") @@ ("y" :> "Y") @@ ("e" :> "E")
           @@ ("s" :> "S") @@ ("n" :> "N") @@ ("b" :> "B") @@ ("r" :> "R")
           @@ ("p" :> "P") @@ ("d" :> "D") @@ ("f" :> "F")

lower(t) == [i \in 1..Len(t) |-> IF t[i] \in DOMAIN LowerOf THEN LowerOf[t[i]] ELSE t[i]]
upper(t) == [i \in 1..Len(t) |-> IF t[i] \in DOMAIN UpperOf THEN UpperOf[t[i]] ELSE t[i]]

RECURSIVE LStrip(_)
LStrip(t) == IF t # <<>> /\ Head(t) = " " THEN LStrip(Tail(t)) ELSE t
RECURSIVE RStrip(_)
RStrip(t) == IF t # <<>> /\ t[Len(t)] = " " THEN RStrip(SubSeq(t, 1, Len(t) - 1)) ELSE t
strip(t) == RStrip(LStrip(t))

RECURSIVE DigitsValue(_)
DigitsValue(t) == IF t = <<>> THEN 0
                  ELSE 10 * DigitsValue(SubSeq(t, 1, Len(t) - 1)) + DigitVal[t[Len(t)]]

AllDigits(t) == t # <<>> /\ \A i \in 1..Len(t) : t[i] \in Digits

\* int(text): surrounding blanks and one sign are accepted; anything else
\* raises ValueError
IntOk(t) ==
    LET s == strip(t) IN
    IF s # <<>> /\ Head(s) \in {"-", "+"} THEN AllDigits(Tail(s)) ELSE AllDigits(s)
IntVal(t) ==
    LET s == strip(t) IN
    IF Head(s) = "-" THEN 0 - DigitsValue(Tail(s))
    ELSE IF Head(s) = "+" THEN DigitsValue(Tail(s))
    ELSE DigitsValue(s)

\* what can stand in the GUI batch-size field
BatchTexts == { <<"1", "0">>, <<"1">>, <<"0">>, <<"-", "1">>, <<"a", "b">> }
\* what the user can answer at a confirmation prompt
Responses == { <<"y">>, <<"Y", "e", "s">>, <<"n">>, <<>>, <<"J", "A">>, <<" ", "j", "a">>,
               <<"j">> }
Interrupt == <<"^", "C">>
\* input() on a closed standard input raises EOFError
EndOfInput == <<"^", "D">>

(***************************************************************************)
(* The file system the process sees.                                       *)
(***************************************************************************)
Tree == [A |-> <<1, 2, 3>>, B |-> <<4, 5>>, D |-> <<6, 7, 8, 9>>, E |-> <<>>,
         home |-> <<>>]
Directories == DOMAIN Tree
Paths == Directories \cup {"missing", "notes.txt"}
\* directories the user of a menu or GUI front end picks from
UserChoices == {"A", "B", "E"}
\* the directories offered by the GUI's directory dialog
DialogChoices == {"B", "E"}
\* the files a user picks or names for a printer test on Windows
TestFiles == {4}

exists(p) == p \in Directories \/ p = "notes.txt"
isdir(p) == p \in Directories

\* find_pdf_files followed by the front end's ordering step; os.walk of a
\* path that is no directory yields nothing and raises nothing
find_pdf_files(d) == IF isdir(d) THEN Tree[d] ELSE <<>>

(***************************************************************************)
(* Batching.                                                               *)
(***************************************************************************)
\* the slices cut one file short: [L[i:i + B - 1] for i in range(0, len(L), B)]
MakeBatchesShort(L, B) ==
    LET starts == RangeFrom0(Len(L), B)
    IN  [k \in 1..Len(starts) |-> Slice(L, starts[k], (starts[k] + B) - 1)]

\* [L[i:i + B] for i in range(0, len(L), B)], B # 0
MakeBatches(L, B) ==
    LET starts == RangeFrom0(Len(L), B)
    IN  [k \in 1..Len(starts) |-> Slice(L, starts[k], starts[k] + B)]

\* batch number of the file at 0-based index i
BatchNum(i, B) == PyFloorDiv(i, B) + 1

\* the files of L in the order of L, grouped by their batch number
GroupByBatchNum(L, B) ==
    LET last == IF L = <<>> THEN 0 ELSE BatchNum(Len(L) - 1, B)
        members(b) == {i \in 0..(Len(L) - 1) : BatchNum(i, B) = b}
        nth(b, j) == CHOOSE i \in members(b) :
                        Cardinality({m \in members(b) : m < i}) = j - 1
    IN  [b \in 1..last |-> [j \in 1..Cardinality(members(b)) |-> L[nth(b, j) + 1]]]

(***************************************************************************)
(* Print backends and runs.                                                *)
(***************************************************************************)
\* Listings.  A line carries the running number, the file and, where the
\* front end prints one, the batch number (a sequence of length 0 or 1).
NoListing == [kind |-> "none", lines |-> <<>>]

\* the printer tests and previews the process has made
Extras == Len(test_prints) + (IF listing = NoListing THEN 0 ELSE 1)

\* lines "i. file" / "i) file"
PlainLines(files) ==
    [i \in 1..Len(files) |-> [n |-> i, file |-> files[i], batch |-> <<>>]]

\* lines "i) [Batch b] file" with b = (i - 1) // batch_size + 1
NumberedLines(files, B) ==
    [i \in 1..Len(files) |->
        [n |-> i, file |-> files[i], batch |-> <<PyFloorDiv(i - 1, B) + 1>>]]

\* lines under the headings "Batch b:" of a list of slices
RECURSIVE SliceLines(_, _, _)
SliceLines(bs, b, n) ==
    IF bs = <<>> THEN <<>>
    ELSE [k \in 1..Len(Head(bs)) |->
             [n |-> n + k, file |-> Head(bs)[k], batch |-> <<b>>]]
         \o SliceLines(Tail(bs), b + 1, n + Len(Head(bs)))

\* outcomes of subprocess.run(['lp', f], capture_output=True, text=True,
\* check=True) without a timeout: lp returns 0, lp returns another status
\* (CalledProcessError), there is no lp (FileNotFoundError), or the call
\* raises something else (PermissionError for an lp that cannot be executed,
\* another OSError, UnicodeDecodeError while the output is decoded)
LpOutcomes == {"ok", "exit", "notfound", "raised"}
\* ... and with timeout=60
LpTimedOutcomes == LpOutcomes \cup {"timeout"}
\* the page the Linux printer tests write to /tmp/printer_test.txt
TestPage == 0
\* a printer test hands file f to the print command; asked tells whether the
\* user was asked before and answered yes
TestPrint(f, asked) == [file |-> f, asked |-> asked]
\* outcomes of os.startfile(f, "print")
StartfileOutcomes == {"ok", "oserror"}

NewRun(plan, B, bs, pc) ==
    [pc |-> pc, plan |-> plan, total |-> Len(plan), B |-> B, batches |-> bs,
     bn |-> 1, k |-> 1,
     successful |-> 0, failed |-> 0, submitted |-> <<>>, outcomes |-> <<>>,
     errors |-> <<>>, pauses |-> 0, delays |-> 0, error |-> "", cancelled |-> FALSE,
     answer |-> <<>>,
     \* for the properties: every earlier run of this process had ended, or
     \* its cancellation had been requested, when this one was started
     after_ended |-> \A w \in DOMAIN runs :
                        runs[w].pc \in {"done", "dead"} \/ runs[w].cancelled]

Summary(kind, s, f, total, run) ==
    [kind |-> kind, successful |-> s, failed |-> f, total |-> total, run |-> run]

RunIds == 1..Len(runs)
cur == Len(runs)

\* the outcomes of a submission after which front end f writes a line that
\* names the file to batch_pdf_printer.log (logging.info / logging.error)
LoggedOutcomes(f) ==
    CASE f = "cli_linux"    -> {"ok", "exit"}       \* "lp command not found" names no file
      [] f = "cli_windows"  -> {"ok", "oserror"}
      [] f = "menu_linux"   -> {"ok", "exit"}       \* FileNotFoundError is not caught
      [] f = "menu_windows" -> {"oserror"}          \* a success is only printed

\* the lines naming a file that run r of a command-line or menu front end
\* has written to the log
Logged(r) == Cardinality({i \in DOMAIN r.outcomes : r.outcomes[i] \in LoggedOutcomes(fe)})

\* a test of the answer that takes everything but n for a yes
AffirmativeUnlessNo(f, answer) == lower(strip(answer)) # <<"n">>

\* the test of the answer typed at the confirmation prompt of front end f
Affirmative(f, answer) ==
    CASE f = "cli_linux"    -> lower(answer) \in { <<"y">>, <<"y", "e", "s">> }
      [] f = "menu_linux"   -> upper(answer) = <<"J", "A">>
      [] f = "cli_windows"  -> upper(strip(answer)) = <<"J", "A">>
      [] f = "menu_windows" -> upper(strip(answer)) = <<"J", "A">>

\* run r, with the answer that started it noted for the properties
StartedBy(r, answer) == [r EXCEPT !.answer = answer]

\* print_pdf: True iff lp accepted the file
print_pdf(outcome) == outcome = "ok"

(***************************************************************************)
(* Initial states.                                                         *)
(***************************************************************************)
FrontEnds == {"cli_linux", "cli_windows", "menu_linux", "menu_windows",
              "gui_linux", "gui_windows"}
\* the programs of the repository: the front ends and the Windows launcher
Programs == FrontEnds \cup {"launcher_windows"}

InitFor(f) ==
    /\ fe = f
    /\ mpc = IF f \in {"cli_linux", "cli_windows"} THEN "boot"
             ELSE IF f \in {"menu_linux", "menu_windows", "launcher_windows"}
             THEN "menu"
             ELSE "mainloop"
    /\ ui = <<>>
    /\ dir_var = NoDir
    /\ current_directory = "home"
    /\ found_pdfs = <<>>
    /\ batch_var = <<"1", "0">>
    /\ batch_size = 10
    /\ delay = 3
    /\ is_printing = FALSE
    /\ print_btn = "disabled"
    /\ stop_btn = "disabled"
    /\ test_prints = <<>>
    /\ size_text = <<>>
    /\ nedits = 0
    /\ dry_run_btn = "disabled"
    /\ search_btn = "disabled"
    /\ runs = <<>>
    /\ afterq = <<>>
    /\ searches = <<>>
    /\ nsearch = 0
    /\ shown = <<>>
    /\ exit_status = NoExit
    /\ batches = <<>>
    /\ listing = NoListing
    /\ tree = {}

Init == \E f \in Programs : InitFor(f)

(***************************************************************************)
(* batch_pdf_printer.py: the Linux command line.                           *)
(***************************************************************************)
CliBatchSizes == {0 - 1, 0, 1, 2, 3, 10}

\* main(): validate, discover, order, confirm, then enter the print loop
LinuxCliMain ==
    /\ fe = "cli_linux" /\ mpc = "boot"
    /\ \E d \in Paths, B \in CliBatchSizes, dry \in BOOLEAN,
          response \in Responses \cup {Interrupt, EndOfInput} :
        /\ batch_size' = B
        /\ current_directory' = d
        /\ IF ~isdir(d)
           THEN /\ mpc' = "exited" /\ exit_status' = 1
                /\ UNCHANGED <<found_pdfs, runs, listing>>
           ELSE LET sorted_pdf_files == find_pdf_files(d) IN
                /\ found_pdfs' = sorted_pdf_files
                /\ listing' = IF sorted_pdf_files = <<>> THEN listing
                               ELSE [kind |-> IF dry THEN "dry_run" ELSE "found",
                                     lines |-> PlainLines(sorted_pdf_files)]
                /\ IF \/ sorted_pdf_files = <<>>
                      \/ dry
                      \/ response = Interrupt
                      \/ (response # EndOfInput /\ ~Affirmative(fe, response))
                   THEN /\ mpc' = "exited" /\ exit_status' = 0
                        /\ UNCHANGED runs
                   ELSE IF response = EndOfInput
                   THEN \* only KeyboardInterrupt is caught at the prompt
                        /\ mpc' = "exited" /\ exit_status' = 1
                        /\ UNCHANGED runs
                   ELSE IF B = 0
                   THEN \* range() arg 3 must not be zero
                        /\ runs' = Append(runs, StartedBy(
                                        [NewRun(sorted_pdf_files, B, <<>>, "dead")
                                           EXCEPT !.error = "ValueError"], response))
                        /\ mpc' = "exited" /\ exit_status' = 1
                   ELSE LET bs == MakeBatches(sorted_pdf_files, B) IN
                        /\ runs' = Append(runs, StartedBy(
                                        NewRun(sorted_pdf_files, B, bs,
                                               IF bs = <<>> THEN "finish" ELSE "printing"),
                                        response))
                        /\ mpc' = "printing" /\ UNCHANGED exit_status
    /\ UNCHANGED <<size_text, nedits, test_prints, dry_run_btn, tree, fe, ui, dir_var, batch_var, delay, is_printing, print_btn,
                   stop_btn, search_btn, afterq, searches, nsearch, shown, batches>>

\* print_pdfs_in_batches: one iteration of the inner loop, with the pause
\* that follows the last file of a batch.  print_pdf catches
\* CalledProcessError and FileNotFoundError; any other exception leaves
\* print_pdf, the loop and main, and the interpreter exits with status 1.
LinuxCliPrintFile ==
    /\ fe = "cli_linux" /\ mpc = "printing"
    /\ runs[cur].pc = "printing"
    /\ \E outcome \in LpOutcomes :
        LET r == runs[cur]
            batch == r.batches[r.bn]
            pdf_file == batch[r.k]
            i == (r.bn - 1) * r.B
            lastOfBatch == r.k = Len(batch)
            r1 == [r EXCEPT !.submitted = Append(@, pdf_file),
                            !.outcomes = Append(@, outcome),
                            !.successful = IF print_pdf(outcome) THEN @ + 1 ELSE @,
                            !.failed = IF print_pdf(outcome) THEN @ ELSE @ + 1,
                            !.errors = IF print_pdf(outcome) THEN @
                                       ELSE Append(@, pdf_file)]
            r2 == IF ~lastOfBatch THEN [r1 EXCEPT !.k = @ + 1]
                  ELSE [r1 EXCEPT !.k = 1, !.bn = @ + 1,
                                  !.pauses = IF i + r.B < Len(r.plan) THEN @ + 1 ELSE @,
                                  !.pc = IF r.bn = Len(r.batches) THEN "finish" ELSE "printing"]
        IN  IF outcome = "raised"
            THEN /\ runs' = [runs EXCEPT ![cur] =
                               [r EXCEPT !.submitted = Append(@, pdf_file),
                                         !.outcomes = Append(@, outcome),
                                         !.pc = "dead", !.error = "OSError"]]
                 /\ mpc' = "exited" /\ exit_status' = 1
            ELSE /\ runs' = [runs EXCEPT ![cur] = r2]
                 /\ UNCHANGED <<mpc, exit_status>>
    /\ UNCHANGED <<size_text, nedits, test_prints, dry_run_btn, tree, listing, fe, ui, dir_var, current_directory, found_pdfs, batch_var,
                   batch_size, delay, is_printing, print_btn, stop_btn, search_btn,
                   afterq, searches, nsearch, shown, batches>>

\* the tally is logged, main returns and the interpreter exits with 0
LinuxCliFinish ==
    /\ fe = "cli_linux" /\ mpc = "printing"
    /\ runs[cur].pc = "finish"
    /\ runs' = [runs EXCEPT ![cur].pc = "done"]
    /\ shown' = Append(shown, Summary("completed", runs[cur].successful,
                                      runs[cur].failed, Len(runs[cur].plan), cur))
    /\ mpc' = "exited"
    /\ exit_status' = 0
    /\ UNCHANGED <<size_text, nedits, test_prints, dry_run_btn, tree, listing, fe, ui, dir_var, current_directory, found_pdfs, batch_var,
                   batch_size, delay, is_printing, print_btn, stop_btn, search_btn,
                   afterq, searches, nsearch, batches>>

(***************************************************************************)
(* batch_pdf_printer_windows.py: the Windows command line.                 *)
(***************************************************************************)
CliDelays == {0 - 1, 0, 3}

\* print_pdf_file: True iff os.startfile raised nothing
print_pdf_file(outcome) == outcome = "ok"

\* main() up to the call of print_pdfs_in_batches
WinCliMain ==
    /\ fe = "cli_windows" /\ mpc = "boot"
    /\ \E d \in Paths, B \in CliBatchSizes, dl \in CliDelays,
          dry \in BOOLEAN, list_only \in BOOLEAN, printer \in BOOLEAN,
          confirm \in Responses \cup {Interrupt, EndOfInput} :
        /\ batch_size' = B
        /\ delay' = dl
        /\ current_directory' = d
        /\ IF ~exists(d) \/ ~isdir(d)
           THEN /\ mpc' = "exited" /\ exit_status' = 1
                /\ UNCHANGED <<found_pdfs, runs, listing>>
           ELSE IF ~dry /\ ~list_only /\ ~printer
           THEN \* check_windows_printer raised RuntimeError
                /\ mpc' = "exited" /\ exit_status' = 1
                /\ UNCHANGED <<found_pdfs, runs, listing>>
           ELSE LET pdf_files == find_pdf_files(d) IN
                /\ found_pdfs' = pdf_files
                /\ IF pdf_files = <<>>
                   THEN /\ mpc' = "exited" /\ exit_status' = 0
                        /\ UNCHANGED <<runs, listing>>
                   ELSE IF list_only
                   THEN /\ listing' = [kind |-> "list_only",
                                       lines |-> PlainLines(pdf_files)]
                        /\ mpc' = "exited" /\ exit_status' = 0
                        /\ UNCHANGED runs
                   ELSE IF dry
                   THEN \* the number of batches is computed with // batch_size,
                        \* a ZeroDivisionError before the first line when it is 0
                        /\ listing' = IF B = 0 THEN listing
                                       ELSE [kind |-> "dry_run",
                                             lines |-> NumberedLines(pdf_files, B)]
                        /\ mpc' = "exited"
                        /\ exit_status' = IF B = 0 THEN 1 ELSE 0
                        /\ UNCHANGED runs
                   ELSE IF confirm = EndOfInput
                   THEN \* EOFError reaches the except Exception of the script,
                        \* which ends with sys.exit(1)
                        /\ mpc' = "exited" /\ exit_status' = 1
                        /\ UNCHANGED <<runs, listing>>
                   ELSE IF confirm = Interrupt \/ ~Affirmative(fe, confirm)
                   THEN /\ mpc' = "exited" /\ exit_status' = 0
                        /\ UNCHANGED <<runs, listing>>
                   ELSE /\ runs' = Append(runs, StartedBy(
                                       NewRun(pdf_files, B, <<>>, "printing"), confirm))
                        /\ mpc' = "printing" /\ UNCHANGED <<exit_status, listing>>
    /\ UNCHANGED <<size_text, nedits, test_prints, dry_run_btn, tree, fe, ui, dir_var, batch_var, is_printing, print_btn,
                   stop_btn, search_btn, afterq, searches, nsearch, shown, batches>>

\* print_pdfs_in_batches: one iteration of the loop over the files
WinCliPrintFile ==
    /\ fe = "cli_windows" /\ mpc = "printing"
    /\ runs[cur].pc = "printing"
    /\ \E outcome \in StartfileOutcomes :
        LET r == runs[cur]
            i == r.k - 1
            total_files == Len(r.plan)
        IN
        IF r.B = 0
        THEN \* i // batch_size raises ZeroDivisionError before the file is sent
             /\ runs' = [runs EXCEPT ![cur].pc = "dead",
                                     ![cur].error = "ZeroDivisionError"]
             /\ mpc' = "exited" /\ exit_status' = 1
        ELSE LET r1 == [r EXCEPT !.submitted = Append(@, r.plan[i + 1]),
                                 !.outcomes = Append(@, outcome),
                                 !.successful = IF print_pdf_file(outcome) THEN @ + 1 ELSE @,
                                 !.failed = IF print_pdf_file(outcome) THEN @ ELSE @ + 1,
                                 !.errors = IF print_pdf_file(outcome) THEN @
                                            ELSE Append(@, r.plan[i + 1]),
                                 !.delays = @ + 1,
                                 !.k = @ + 1]
                 boundary == PyMod(i + 1, r.B) = 0 /\ i + 1 < total_files
             IN
             IF boundary /\ delay < 0
             THEN \* time.sleep raises ValueError on a negative length
                  /\ runs' = [runs EXCEPT ![cur] = [r1 EXCEPT !.pc = "dead",
                                                              !.error = "ValueError"]]
                  /\ mpc' = "exited" /\ exit_status' = 1
             ELSE /\ runs' = [runs EXCEPT ![cur] =
                                [r1 EXCEPT !.pauses = IF boundary THEN @ + 1 ELSE @,
                                           !.pc = IF i + 1 = total_files
                                                  THEN "finish" ELSE "printing"]]
                  /\ UNCHANGED <<mpc, exit_status>>
    /\ UNCHANGED <<size_text, nedits, test_prints, dry_run_btn, tree, listing, fe, ui, dir_var, current_directory, found_pdfs, batch_var,
                   batch_size, delay, is_printing, print_btn, stop_btn, search_btn,
                   afterq, searches, nsearch, shown, batches>>

\* main() after the loop: the results are printed and the exit code chosen
WinCliFinish ==
    /\ fe = "cli_windows" /\ mpc = "printing"
    /\ runs[cur].pc = "finish"
    /\ runs' = [runs EXCEPT ![cur].pc = "done"]
    /\ shown' = Append(shown, Summary("completed", runs[cur].successful,
                                      runs[cur].failed, Len(runs[cur].plan), cur))
    /\ mpc' = "exited"
    /\ exit_status' = IF runs[cur].failed > 0 THEN 1 ELSE 0
    /\ UNCHANGED <<size_text, nedits, test_prints, dry_run_btn, tree, listing, fe, ui, dir_var, current_directory, found_pdfs, batch_var,
                   batch_size, delay, is_printing, print_btn, stop_btn, search_btn,
                   afterq, searches, nsearch, batches>>

(***************************************************************************)
(* interactive_pdf_printer.py: the Linux terminal menu.                    *)
(***************************************************************************)
\* what the user can type at a batch-size prompt
SizeTexts == { <<>>, <<" ">>, <<"2">>, <<" ", "2">>, <<"0">>, <<"-", "1">>,
              <<"a", "b">>, <<"1", "0", "1">>, <<"5", "1">>,
              <<"1", "0", "0">>, <<"5", "0">> }

\* main_loop choice 0: browse_directory returned d, the files are searched
\* and ordered and show_pdf_preview lists them
LinuxMenuSelect ==
    /\ fe = "menu_linux" /\ mpc = "menu"
    /\ \E d \in UserChoices :
        /\ current_directory' = d
        /\ found_pdfs' = find_pdf_files(d)
        /\ mpc' = IF find_pdf_files(d) = <<>> THEN "menu" ELSE "preview"
    /\ UNCHANGED <<size_text, nedits, test_prints, dry_run_btn, tree, listing, fe, ui, dir_var, batch_var, batch_size, delay, is_printing,
                   print_btn, stop_btn, search_btn, runs, afterq, searches,
                   nsearch, shown, exit_status, batches>>

\* show_pdf_preview: the user's choice; 0 enters print_pdfs, which prompts
LinuxMenuPreviewChoice ==
    /\ fe = "menu_linux" /\ mpc = "preview"
    /\ \E choice \in {0, 1, 2} :
        mpc' = IF choice = 0 THEN "confirm" ELSE "menu"
    /\ UNCHANGED <<size_text, nedits, test_prints, dry_run_btn, tree, listing, fe, ui, dir_var, current_directory, found_pdfs, batch_var,
                   batch_size, delay, is_printing, print_btn, stop_btn, search_btn,
                   runs, afterq, searches, nsearch, shown, exit_status, batches>>

\* print_pdfs: the "Type 'JA'" prompt and the construction of the batches
LinuxMenuConfirm ==
    /\ fe = "menu_linux" /\ mpc = "confirm"
    /\ \E confirm \in Responses \cup {Interrupt, EndOfInput} :
        IF confirm \in {Interrupt, EndOfInput}
        THEN \* KeyboardInterrupt and EOFError end run()
             /\ mpc' = "exited" /\ exit_status' = 0 /\ UNCHANGED runs
        ELSE IF ~Affirmative(fe, confirm)
        THEN /\ mpc' = "menu" /\ UNCHANGED <<runs, exit_status>>
        ELSE /\ Len(runs) < MaxMenuRuns
             /\ runs' = Append(runs, StartedBy(
                            NewRun(found_pdfs, batch_size,
                                   MakeBatches(found_pdfs, batch_size), "printing"),
                            confirm))
             /\ mpc' = "printing" /\ UNCHANGED exit_status
    /\ UNCHANGED <<size_text, nedits, test_prints, dry_run_btn, tree, listing, fe, ui, dir_var, current_directory, found_pdfs, batch_var,
                   batch_size, delay, is_printing, print_btn, stop_btn, search_btn,
                   afterq, searches, nsearch, shown, batches>>

\* print_pdfs: one iteration of the inner loop, with the pause after the
\* last file of a batch; only CalledProcessError is caught
LinuxMenuPrintFile ==
    /\ fe = "menu_linux" /\ mpc = "printing"
    /\ runs[cur].pc = "printing"
    /\ \E outcome \in LpOutcomes :
        LET r == runs[cur]
            batch == r.batches[r.bn]
            pdf == batch[r.k]
            lastOfBatch == r.k = Len(batch)
            r1 == [r EXCEPT !.submitted = Append(@, pdf),
                            !.outcomes = Append(@, outcome)]
        IN
        IF outcome \in {"notfound", "raised"}
        THEN \* the exception leaves print_pdfs and main_loop; run() reports it
             /\ runs' = [runs EXCEPT ![cur] =
                           [r1 EXCEPT !.pc = "dead",
                                      !.error = IF outcome = "notfound"
                                                THEN "FileNotFoundError" ELSE "OSError"]]
             /\ mpc' = "exited" /\ exit_status' = 0
        ELSE LET r2 == [r1 EXCEPT !.successful = IF outcome = "ok" THEN @ + 1 ELSE @,
                                  !.failed = IF outcome = "ok" THEN @ ELSE @ + 1]
                 r3 == IF ~lastOfBatch THEN [r2 EXCEPT !.k = @ + 1]
                       ELSE [r2 EXCEPT !.k = 1, !.bn = @ + 1,
                                !.pauses = IF r.bn < Len(r.batches) THEN @ + 1 ELSE @,
                                !.pc = IF r.bn = Len(r.batches) THEN "finish" ELSE "printing"]
             IN /\ runs' = [runs EXCEPT ![cur] = r3]
                /\ UNCHANGED <<mpc, exit_status>>
    /\ UNCHANGED <<size_text, nedits, test_prints, dry_run_btn, tree, listing, fe, ui, dir_var, current_directory, found_pdfs, batch_var,
                   batch_size, delay, is_printing, print_btn, stop_btn, search_btn,
                   afterq, searches, nsearch, shown, batches>>

\* print_pdfs: the closing summary, then back to the main menu
LinuxMenuFinish ==
    /\ fe = "menu_linux" /\ mpc = "printing"
    /\ runs[cur].pc = "finish"
    /\ runs' = [runs EXCEPT ![cur].pc = "done"]
    /\ shown' = Append(shown, Summary("completed", runs[cur].successful,
                                      runs[cur].failed, Len(runs[cur].plan), cur))
    /\ mpc' = "menu"
    /\ UNCHANGED <<size_text, nedits, test_prints, dry_run_btn, tree, listing, fe, ui, dir_var, current_directory, found_pdfs, batch_var,
                   batch_size, delay, is_printing, print_btn, stop_btn, search_btn,
                   afterq, searches, nsearch, exit_status, batches>>

\* set_batch_size without the test of the range
set_batch_size_unchecked ==
    /\ fe = "menu_linux" /\ mpc = "menu"
    /\ \E new_size \in SizeTexts \cup {Interrupt, EndOfInput} :
        IF new_size \in {Interrupt, EndOfInput}
        THEN mpc' = "exited" /\ exit_status' = 0 /\ UNCHANGED <<batch_size, size_text>>
        ELSE /\ size_text' = new_size
             /\ batch_size' = IF strip(new_size) # <<>> /\ IntOk(new_size)
                              THEN IntVal(new_size) ELSE batch_size
             /\ UNCHANGED <<mpc, exit_status>>
    /\ UNCHANGED <<nedits, test_prints, dry_run_btn, tree, listing, fe, ui, dir_var, current_directory, found_pdfs, batch_var,
                   delay, is_printing, print_btn, stop_btn, search_btn,
                   runs, afterq, searches, nsearch, shown, batches>>

\* configure_settings choice 0: set_batch_size; an interrupt or the end of
\* input at its prompt is caught in run(), which ends the program
set_batch_size ==
    /\ fe = "menu_linux" /\ mpc = "menu"
    /\ \E new_size \in SizeTexts \cup {Interrupt, EndOfInput} :
        IF new_size \in {Interrupt, EndOfInput}
        THEN mpc' = "exited" /\ exit_status' = 0 /\ UNCHANGED <<batch_size, size_text>>
        ELSE /\ size_text' = new_size
             /\ batch_size' = IF strip(new_size) # <<>> /\ IntOk(new_size)
                                 /\ 1 <= IntVal(new_size) /\ IntVal(new_size) <= 100
                              THEN IntVal(new_size) ELSE batch_size
             /\ UNCHANGED <<mpc, exit_status>>
    /\ UNCHANGED <<nedits, test_prints, dry_run_btn, tree, listing, fe, ui, dir_var, current_directory, found_pdfs, batch_var,
                   delay, is_printing, print_btn, stop_btn, search_btn,
                   runs, afterq, searches, nsearch, shown, batches>>

\* configure_settings choice 1: test_printer writes a test page to
\* /tmp/printer_test.txt and hands it to lp, without a question and outside
\* any run; how lp ends is only printed
LinuxMenuTestPrinter ==
    /\ fe = "menu_linux" /\ mpc = "menu"
    /\ Extras < MaxExtras
    /\ \E written \in BOOLEAN :
        test_prints' = IF written THEN Append(test_prints, TestPrint(TestPage, FALSE)) ELSE test_prints
    /\ UNCHANGED <<size_text, nedits, dry_run_btn, tree, listing, fe, mpc, ui, dir_var, current_directory,
                   found_pdfs, batch_var, batch_size, delay, is_printing,
                   print_btn, stop_btn, search_btn, runs, afterq, searches,
                   nsearch, shown, exit_status, batches>>

\* main_loop choice 3 (or 'q'): leave
LinuxMenuQuit ==
    /\ fe = "menu_linux" /\ mpc = "menu"
    /\ mpc' = "exited" /\ exit_status' = 0
    /\ UNCHANGED <<size_text, nedits, test_prints, dry_run_btn, tree, listing, fe, ui, dir_var, current_directory, found_pdfs, batch_var,
                   batch_size, delay, is_printing, print_btn, stop_btn, search_btn,
                   runs, afterq, searches, nsearch, shown, batches>>

(***************************************************************************)
(* interactive_pdf_printer_windows.py: the Windows terminal menu.          *)
(***************************************************************************)
\* main_menu choice 1: navigate_directory moves self.current_directory as
\* the user goes; on "use this directory" search_and_list_pdfs follows
WinMenuNavigate ==
    /\ fe = "menu_windows" /\ mpc = "menu"
    /\ \E d \in UserChoices \cup {current_directory}, use \in BOOLEAN :
        /\ current_directory' = d
        /\ found_pdfs' = IF use THEN find_pdf_files(d) ELSE found_pdfs
    /\ UNCHANGED <<size_text, nedits, test_prints, dry_run_btn, tree, listing, fe, mpc, ui, dir_var, batch_var, batch_size, delay, is_printing,
                   print_btn, stop_btn, search_btn, runs, afterq, searches,
                   nsearch, shown, exit_status, batches>>

\* navigate_directory choice 2: manual_path_input takes any path the user
\* types; a path that is no directory is refused
manual_path_input ==
    /\ fe = "menu_windows" /\ mpc = "menu"
    /\ \E new_path \in Paths :
        current_directory' = IF exists(new_path) /\ isdir(new_path)
                             THEN new_path ELSE current_directory
    /\ UNCHANGED <<size_text, nedits, test_prints, dry_run_btn, tree, listing, fe, mpc, ui, dir_var, found_pdfs, batch_var, batch_size,
                   delay, is_printing, print_btn, stop_btn, search_btn, runs, afterq,
                   searches, nsearch, shown, exit_status, batches>>

\* main_menu choice 2: search_and_list_pdfs
search_and_list_pdfs ==
    /\ fe = "menu_windows" /\ mpc = "menu"
    /\ found_pdfs' = find_pdf_files(current_directory)
    /\ UNCHANGED <<size_text, nedits, test_prints, dry_run_btn, tree, listing, fe, mpc, ui, dir_var, current_directory, batch_var, batch_size,
                   delay, is_printing, print_btn, stop_btn, search_btn, runs,
                   afterq, searches, nsearch, shown, exit_status, batches>>

\* main_menu choice 4: configure_print_settings asks until the answer is
\* blank or a number in 1..50
configure_print_settings ==
    /\ fe = "menu_windows" /\ mpc \in {"menu", "configure"}
    /\ \E text \in SizeTexts \cup {Interrupt, EndOfInput} :
        LET new_size == strip(text) IN
        IF text \in {Interrupt, EndOfInput}
        THEN \* only ValueError is caught at the prompt; KeyboardInterrupt
             \* and EOFError end run()
             mpc' = "exited" /\ exit_status' = 0 /\ UNCHANGED <<batch_size, size_text>>
        ELSE
        /\ size_text' = text
        /\ IF new_size = <<>>
           THEN mpc' = "menu" /\ UNCHANGED <<batch_size, exit_status>>
           ELSE IF IntOk(new_size) /\ 1 <= IntVal(new_size) /\ IntVal(new_size) <= 50
           THEN mpc' = "menu" /\ batch_size' = IntVal(new_size) /\ UNCHANGED exit_status
           ELSE mpc' = "configure" /\ UNCHANGED <<batch_size, exit_status>>
    /\ UNCHANGED <<nedits, test_prints, dry_run_btn, tree, listing, fe, ui, dir_var, current_directory, found_pdfs, batch_var,
                   delay, is_printing, print_btn, stop_btn, search_btn,
                   runs, afterq, searches, nsearch, shown, batches>>

\* main_menu choice 5: test_windows_printer.  With a default printer and
\* files found it offers the first found file as a test and hands it to
\* os.startfile after the answer j, ja, y or yes; how os.startfile ends is
\* only printed
test_windows_printer ==
    /\ fe = "menu_windows" /\ mpc = "menu"
    /\ Extras < MaxExtras
    /\ \E printer \in BOOLEAN, confirm \in Responses \cup {Interrupt, EndOfInput} :
        IF ~printer \/ found_pdfs = <<>>
        THEN UNCHANGED <<mpc, exit_status, test_prints>>
        ELSE IF confirm \in {Interrupt, EndOfInput}
        THEN mpc' = "exited" /\ exit_status' = 0 /\ UNCHANGED test_prints
        ELSE /\ test_prints' =
                    IF lower(strip(confirm)) \in { <<"j">>, <<"j", "a">>, <<"y">>,
                                                   <<"y", "e", "s">> }
                    THEN Append(test_prints, TestPrint(found_pdfs[1], TRUE)) ELSE test_prints
             /\ UNCHANGED <<mpc, exit_status>>
    /\ UNCHANGED <<size_text, nedits, dry_run_btn, tree, listing, fe, ui, dir_var, current_directory,
                   found_pdfs, batch_var, batch_size, delay, is_printing,
                   print_btn, stop_btn, search_btn, runs, afterq, searches,
                   nsearch, shown, batches>>

\* main_menu choice 6 with files found: print_pdfs up to the loop
WinMenuPrintStart ==
    /\ fe = "menu_windows" /\ mpc = "menu"
    /\ found_pdfs # <<>>
    /\ \E confirm \in Responses \cup {Interrupt, EndOfInput} :
        IF confirm \in {Interrupt, EndOfInput}
        THEN mpc' = "exited" /\ exit_status' = 0 /\ UNCHANGED runs
        ELSE IF ~Affirmative(fe, confirm)
        THEN UNCHANGED <<mpc, runs, exit_status>>
        ELSE /\ Len(runs) < MaxMenuRuns
             /\ runs' = Append(runs, StartedBy(
                            NewRun(found_pdfs, batch_size, <<>>, "printing"), confirm))
             /\ mpc' = "printing" /\ UNCHANGED exit_status
    /\ UNCHANGED <<size_text, nedits, test_prints, dry_run_btn, tree, listing, fe, ui, dir_var, current_directory, found_pdfs, batch_var,
                   batch_size, delay, is_printing, print_btn, stop_btn, search_btn,
                   afterq, searches, nsearch, shown, batches>>

\* print_pdfs: one iteration of the loop over the files
WinMenuPrintFile ==
    /\ fe = "menu_windows" /\ mpc = "printing"
    /\ runs[cur].pc = "printing"
    /\ \E outcome \in StartfileOutcomes :
        LET r == runs[cur]
            i == r.k
            n == Len(r.plan)
            r1 == [r EXCEPT !.submitted = Append(@, r.plan[i]),
                            !.outcomes = Append(@, outcome),
                            !.k = @ + 1,
                            !.pc = IF i = n THEN "finish" ELSE "printing"]
            pause == i % r.B = 0 /\ i < n
        IN runs' = [runs EXCEPT ![cur] =
                      IF outcome = "ok"
                      THEN [r1 EXCEPT !.successful = @ + 1,
                                      !.pauses = IF pause THEN @ + 1 ELSE @,
                                      !.delays = IF pause THEN @ ELSE @ + 1]
                      ELSE [r1 EXCEPT !.failed = @ + 1]]
    /\ UNCHANGED <<size_text, nedits, test_prints, dry_run_btn, tree, listing, fe, mpc, ui, dir_var, current_directory, found_pdfs, batch_var,
                   batch_size, delay, is_printing, print_btn, stop_btn, search_btn,
                   afterq, searches, nsearch, shown, exit_status, batches>>

\* print_pdfs: the results, then back to the main menu
WinMenuFinish ==
    /\ fe = "menu_windows" /\ mpc = "printing"
    /\ runs[cur].pc = "finish"
    /\ runs' = [runs EXCEPT ![cur].pc = "done"]
    /\ shown' = Append(shown, Summary("completed", runs[cur].successful,
                                      runs[cur].failed, Len(runs[cur].plan), cur))
    /\ mpc' = "menu"
    /\ UNCHANGED <<size_text, nedits, test_prints, dry_run_btn, tree, listing, fe, ui, dir_var, current_directory, found_pdfs, batch_var,
                   batch_size, delay, is_printing, print_btn, stop_btn, search_btn,
                   afterq, searches, nsearch, exit_status, batches>>

\* main_menu choice 8: leave
WinMenuQuit ==
    /\ fe = "menu_windows" /\ mpc = "menu"
    /\ mpc' = "exited" /\ exit_status' = 0
    /\ UNCHANGED <<size_text, nedits, test_prints, dry_run_btn, tree, listing, fe, ui, dir_var, current_directory, found_pdfs, batch_var,
                   batch_size, delay, is_printing, print_btn, stop_btn, search_btn,
                   runs, afterq, searches, nsearch, shown, batches>>

(***************************************************************************)
(* gui_pdf_printer.py: the Linux GUI.  Handlers run on the Tk main thread  *)
(* when no modal dialog is open (ui = <<>>); callbacks queued with         *)
(* root.after(0, ...) run in queue order, also under an open dialog;       *)
(* search and print threads advance one shared-state access at a time.     *)
(* Nothing runs on the main thread while a handler keeps it, and the       *)
(* threads, which are daemon threads, end with the main loop.              *)
(***************************************************************************)
Callback(cb, files, s, f, run) == [cb |-> cb, files |-> files, s |-> s, f |-> f, run |-> run]

Running(r) == r.pc \notin {"done", "dead"}

\* browse_directory with a directory chosen in the file dialog; a dialog
\* that is cancelled changes nothing
browse_directory ==
    /\ fe = "gui_linux" /\ mpc = "mainloop" /\ ui = <<>>
    /\ \E directory \in DialogChoices :
        dir_var' = directory
    /\ search_btn' = "normal"
    /\ UNCHANGED <<size_text, nedits, test_prints, dry_run_btn, tree, listing, fe, mpc, ui, current_directory, found_pdfs, batch_var, batch_size,
                   delay, is_printing, print_btn, stop_btn, runs, afterq,
                   searches, nsearch, shown, exit_status, batches>>

\* the user edits the batch-size Spinbox, which accepts any text, whenever
\* the window takes input
GuiEditBatch ==
    /\ fe \in {"gui_linux", "gui_windows"}
    /\ mpc = "mainloop" /\ ui = <<>>
    /\ nedits < MaxEdits
    /\ \E text \in BatchTexts : batch_var' = text
    /\ batch_var' # batch_var
    /\ nedits' = nedits + 1
    /\ UNCHANGED <<size_text, test_prints, dry_run_btn, tree, listing, fe, mpc, ui, dir_var, current_directory, found_pdfs, batch_size,
                   delay, is_printing, print_btn, stop_btn, search_btn, runs,
                   afterq, searches, nsearch, shown, exit_status, batches>>

\* search_pdfs: the search button starts a search thread
search_pdfs ==
    /\ fe = "gui_linux" /\ mpc = "mainloop" /\ ui = <<>>
    /\ search_btn = "normal"
    /\ nsearch < MaxSearches
    /\ IF dir_var = NoDir
       THEN ui' = <<"warning">> /\ UNCHANGED <<search_btn, searches, nsearch>>
       ELSE /\ search_btn' = "disabled"
            /\ searches' = Append(searches, dir_var)
            /\ nsearch' = nsearch + 1
            /\ UNCHANGED ui
    /\ UNCHANGED <<size_text, nedits, test_prints, dry_run_btn, tree, listing, fe, mpc, dir_var, current_directory, found_pdfs, batch_var,
                   batch_size, delay, is_printing, print_btn, stop_btn, runs,
                   afterq, shown, exit_status, batches>>

\* _search_thread: a walk ends and hands its result to the main thread.
\* Every search is a thread of its own, so the walks end in any order.
_search_thread ==
    /\ fe = "gui_linux" /\ mpc # "exited"
    /\ \E i \in DOMAIN searches :
        /\ afterq' = Append(afterq, Callback("_update_pdf_list",
                                             find_pdf_files(searches[i]), 0, 0, 0))
        /\ searches' = SubSeq(searches, 1, i - 1)
                       \o SubSeq(searches, i + 1, Len(searches))
    /\ UNCHANGED <<size_text, nedits, test_prints, dry_run_btn, tree, listing, fe, mpc, ui, dir_var,
                   current_directory, found_pdfs, batch_var, batch_size, delay,
                   is_printing, print_btn, stop_btn, search_btn, runs, nsearch,
                   shown, exit_status, batches>>

\* _update_pdf_list, run from the callback queue
_update_pdf_list ==
    /\ fe = "gui_linux" /\ mpc = "mainloop"
    /\ afterq # <<>> /\ Head(afterq).cb = "_update_pdf_list"
    /\ found_pdfs' = Head(afterq).files
    /\ dry_run_btn' = IF Head(afterq).files # <<>> THEN "normal" ELSE dry_run_btn
    /\ print_btn' = IF Head(afterq).files # <<>> THEN "normal" ELSE print_btn
    /\ search_btn' = "normal"
    /\ afterq' = Tail(afterq)
    /\ UNCHANGED <<size_text, nedits, test_prints, tree, listing, fe, mpc, ui, dir_var, current_directory, batch_var, batch_size,
                   delay, is_printing, stop_btn, runs, searches, nsearch, shown,
                   exit_status, batches>>

\* start_printing up to its dialog: a warning without files, else the
\* confirmation question.  It does not look at is_printing.
start_printing ==
    /\ fe = "gui_linux" /\ mpc = "mainloop" /\ ui = <<>>
    /\ print_btn = "normal"
    /\ Len(runs) < MaxRuns \/ found_pdfs = <<>>
    /\ ui' = IF found_pdfs = <<>> THEN <<"warning">> ELSE <<"confirm">>
    /\ UNCHANGED <<size_text, nedits, test_prints, dry_run_btn, tree, listing, fe, mpc, dir_var, current_directory, found_pdfs, batch_var,
                   batch_size, delay, is_printing, print_btn, stop_btn, search_btn,
                   runs, afterq, searches, nsearch, shown, exit_status, batches>>

\* start_printing after askyesno returned
GuiConfirm ==
    /\ fe = "gui_linux" /\ mpc = "mainloop"
    /\ ui # <<>> /\ ui[Len(ui)] = "confirm"
    /\ ui' = SubSeq(ui, 1, Len(ui) - 1)
    /\ \E result \in BOOLEAN :
        IF result
        THEN /\ is_printing' = TRUE
             /\ print_btn' = "disabled"
             /\ stop_btn' = "normal"
             /\ runs' = Append(runs, StartedBy(NewRun(<<>>, 0, <<>>, "start"), result))
        ELSE UNCHANGED <<is_printing, print_btn, stop_btn, runs>>
    /\ UNCHANGED <<size_text, nedits, test_prints, dry_run_btn, tree, listing, fe, mpc, dir_var, current_directory, found_pdfs, batch_var,
                   batch_size, delay, search_btn, afterq, searches, nsearch,
                   shown, exit_status, batches>>

\* the user closes a message box
GuiDismiss ==
    /\ fe \in {"gui_linux", "gui_windows"} /\ mpc = "mainloop"
    /\ ui # <<>> /\ ui[Len(ui)] \in {"info", "warning", "error"}
    /\ ui' = SubSeq(ui, 1, Len(ui) - 1)
    /\ UNCHANGED <<size_text, nedits, test_prints, dry_run_btn, tree, listing, fe, mpc, dir_var, current_directory, found_pdfs, batch_var,
                   batch_size, delay, is_printing, print_btn, stop_btn, search_btn,
                   runs, afterq, searches, nsearch, shown, exit_status, batches>>

\* stop_printing: the stop button.  The code only clears is_printing; the
\* field cancelled notes, for the properties, which runs the request met.
stop_printing ==
    /\ fe = "gui_linux" /\ mpc = "mainloop" /\ ui = <<>>
    /\ stop_btn = "normal"
    /\ is_printing' = FALSE
    /\ runs' = [w \in RunIds |-> IF Running(runs[w])
                                 THEN [runs[w] EXCEPT !.cancelled = TRUE]
                                 ELSE runs[w]]
    /\ UNCHANGED <<size_text, nedits, test_prints, dry_run_btn, tree, listing, fe, mpc, ui, dir_var, current_directory, found_pdfs, batch_var,
                   batch_size, delay, print_btn, stop_btn, search_btn,
                   afterq, searches, nsearch, shown, exit_status, batches>>

\* _print_thread, first statement: batch_size = int(self.batch_var.get()).
\* A text that is no integer raises ValueError, which ends the thread.
GuiThreadStart ==
    \E w \in RunIds :
      /\ fe = "gui_linux" /\ mpc # "exited"
      /\ runs[w].pc = "start"
      /\ runs' = [runs EXCEPT ![w] =
                    IF ~IntOk(batch_var)
                    THEN [@ EXCEPT !.pc = "dead", !.error = "ValueError"]
                    ELSE [@ EXCEPT !.pc = "plan", !.B = IntVal(batch_var)]]
      /\ UNCHANGED <<size_text, nedits, test_prints, dry_run_btn, tree, listing, fe, mpc, ui, dir_var,
                     current_directory, found_pdfs, batch_var, batch_size, delay,
                     is_printing, print_btn, stop_btn, search_btn, afterq,
                     searches, nsearch, shown, exit_status, batches>>

\* _print_thread, second statement, range(0, len(self.found_pdfs),
\* batch_size): the length of self.found_pdfs as it is by now fixes the
\* starts of the slices.  range() with step 0 raises ValueError, which ends
\* the thread.
GuiThreadPlan ==
    \E w \in RunIds :
      /\ fe = "gui_linux" /\ mpc # "exited"
      /\ runs[w].pc = "plan"
      /\ runs' = [runs EXCEPT ![w] =
                    IF runs[w].B = 0
                    THEN [@ EXCEPT !.pc = "dead", !.plan = found_pdfs,
                                   !.total = Len(found_pdfs),
                                   !.error = "ValueError"]
                    ELSE [@ EXCEPT !.pc = IF RangeFrom0(Len(found_pdfs), runs[w].B) = <<>>
                                          THEN "batch_check" ELSE "slice",
                                   !.plan = found_pdfs,
                                   !.total = Len(found_pdfs),
                                   !.batches = <<>>]]
      /\ UNCHANGED <<size_text, nedits, test_prints, dry_run_btn, tree, listing, fe, mpc, ui, dir_var,
                     current_directory, found_pdfs, batch_var, batch_size, delay,
                     is_printing, print_btn, stop_btn, search_btn, afterq,
                     searches, nsearch, shown, exit_status, batches>>

\* _print_thread, second statement, one slice self.found_pdfs[i:i + batch_size]
\* of the list comprehension: every slice reads self.found_pdfs anew, which
\* _update_pdf_list may have replaced since the length was taken
GuiThreadSlice ==
    \E w \in RunIds :
      /\ fe = "gui_linux" /\ mpc # "exited"
      /\ runs[w].pc = "slice"
      /\ LET r == runs[w]
             starts == RangeFrom0(r.total, r.B)
             i == starts[Len(r.batches) + 1]
         IN runs' = [runs EXCEPT ![w] =
                       [@ EXCEPT !.pc = IF Len(r.batches) + 1 = Len(starts)
                                        THEN "batch_check" ELSE "slice",
                                 !.batches = Append(@, Slice(found_pdfs, i, i + r.B))]]
      /\ UNCHANGED <<size_text, nedits, test_prints, dry_run_btn, tree, listing, fe, mpc, ui, dir_var,
                     current_directory, found_pdfs, batch_var, batch_size, delay,
                     is_printing, print_btn, stop_btn, search_btn, afterq,
                     searches, nsearch, shown, exit_status, batches>>

\* _print_thread, head of the loop over the batches.  When the batches are
\* used up or is_printing is off the thread leaves the loop and stands
\* before its last statement.
GuiBatchCheck ==
    \E w \in RunIds :
      /\ fe = "gui_linux" /\ mpc # "exited"
      /\ runs[w].pc = "batch_check"
      /\ LET r == runs[w] IN
          runs' = [runs EXCEPT ![w] =
                     IF r.bn > Len(r.batches) \/ ~is_printing
                     THEN [@ EXCEPT !.pc = "finished"]
                     ELSE [@ EXCEPT !.pc = "file_check", !.k = 1]]
      /\ UNCHANGED <<size_text, nedits, test_prints, dry_run_btn, tree, listing, fe, mpc, ui, dir_var,
                     current_directory, found_pdfs, batch_var, batch_size, delay,
                     is_printing, print_btn, stop_btn, search_btn, afterq, searches,
                     nsearch, shown, exit_status, batches>>

\* _print_thread, last statement: root.after(0, self._print_finished,
\* successful, failed) queues the report of the run, and the thread ends.
\* The call waits for the main thread, which may have run other handlers
\* since the thread left the loop.
GuiThreadFinished ==
    \E w \in RunIds :
      /\ fe = "gui_linux" /\ mpc # "exited"
      /\ runs[w].pc = "finished"
      /\ runs' = [runs EXCEPT ![w].pc = "done"]
      /\ afterq' = Append(afterq, Callback("_print_finished", <<>>,
                                           runs[w].successful, runs[w].failed, w))
      /\ UNCHANGED <<size_text, nedits, test_prints, dry_run_btn, tree, listing, fe, mpc, ui, dir_var,
                     current_directory, found_pdfs, batch_var, batch_size, delay,
                     is_printing, print_btn, stop_btn, search_btn, searches,
                     nsearch, shown, exit_status, batches>>

\* _print_thread, head of the loop over the files of a batch: leave the
\* loop when the batch is used up or is_printing is off.  The file is handed
\* to lp only after self.dir_var.get() and root.after, which wait for the
\* main thread.
GuiFileCheck ==
    \E w \in RunIds :
      /\ fe = "gui_linux" /\ mpc # "exited"
      /\ runs[w].pc = "file_check"
      /\ LET r == runs[w] IN
          runs' = [runs EXCEPT ![w] =
                     IF r.k > Len(r.batches[r.bn]) \/ ~is_printing
                     THEN [@ EXCEPT !.pc = "after_batch"]
                     ELSE [@ EXCEPT !.pc = "submit"]]
      /\ UNCHANGED <<size_text, nedits, test_prints, dry_run_btn, tree, listing, fe, mpc, ui, dir_var, current_directory, found_pdfs, batch_var,
                     batch_size, delay, is_printing, print_btn, stop_btn, search_btn,
                     afterq, searches, nsearch, shown, exit_status, batches>>

\* _print_thread: the file is handed to lp with subprocess.run(['lp', f],
\* check=True, timeout=60), which keeps the thread until lp has ended
GuiSubmit ==
    \E w \in RunIds :
      /\ fe = "gui_linux" /\ mpc # "exited"
      /\ runs[w].pc = "submit"
      /\ LET r == runs[w]
             pdf_file == r.batches[r.bn][r.k]
         IN runs' = [runs EXCEPT ![w] =
                       [@ EXCEPT !.pc = "lp", !.submitted = Append(@, pdf_file)]]
      /\ UNCHANGED <<size_text, nedits, test_prints, dry_run_btn, tree, listing, fe, mpc, ui, dir_var, current_directory, found_pdfs, batch_var,
                     batch_size, delay, is_printing, print_btn, stop_btn, search_btn,
                     afterq, searches, nsearch, shown, exit_status, batches>>

\* _print_thread: subprocess.run returns or raises.  CalledProcessError and
\* TimeoutExpired are caught; a missing lp raises FileNotFoundError and an
\* lp that cannot be run another exception, which nothing catches.  The
\* thread keeps the two counters and no list of outcomes.
GuiLpReturn ==
    \E w \in RunIds :
      /\ fe = "gui_linux" /\ mpc # "exited"
      /\ runs[w].pc = "lp"
      /\ \E outcome \in LpTimedOutcomes :
          runs' = [runs EXCEPT ![w] =
                     IF outcome \in {"notfound", "raised"}
                     THEN [@ EXCEPT !.pc = "dead",
                                    !.error = IF outcome = "notfound"
                                              THEN "FileNotFoundError" ELSE "OSError"]
                     ELSE [@ EXCEPT !.pc = "file_check", !.k = @ + 1,
                                    !.successful = IF outcome = "ok" THEN @ + 1 ELSE @,
                                    !.failed = IF outcome = "ok" THEN @ ELSE @ + 1]]
      /\ UNCHANGED <<size_text, nedits, test_prints, dry_run_btn, tree, listing, fe, mpc, ui, dir_var, current_directory, found_pdfs, batch_var,
                     batch_size, delay, is_printing, print_btn, stop_btn, search_btn,
                     afterq, searches, nsearch, shown, exit_status, batches>>

\* _print_thread, after the files of a batch: the test whether to pause,
\* batch_num < len(batches) and self.is_printing.  Without a pause the
\* thread is back at the head of the batch loop.
GuiAfterBatch ==
    \E w \in RunIds :
      /\ fe = "gui_linux" /\ mpc # "exited"
      /\ runs[w].pc = "after_batch"
      /\ LET r == runs[w] IN
          runs' = [runs EXCEPT ![w] =
                     IF r.bn < Len(r.batches) /\ is_printing
                     THEN [@ EXCEPT !.pc = "pause"]
                     ELSE [@ EXCEPT !.pc = "batch_check", !.bn = @ + 1]]
      /\ UNCHANGED <<size_text, nedits, test_prints, dry_run_btn, tree, listing, fe, mpc, ui, dir_var, current_directory, found_pdfs, batch_var,
                     batch_size, delay, is_printing, print_btn, stop_btn, search_btn,
                     afterq, searches, nsearch, shown, exit_status, batches>>

\* _print_thread, the pause: root.after queues the log line, which waits for
\* the main thread, and time.sleep(3) follows whatever is_printing has
\* become.  The thread is back at the head of the batch loop after it.
GuiPause ==
    \E w \in RunIds :
      /\ fe = "gui_linux" /\ mpc # "exited"
      /\ runs[w].pc = "pause"
      /\ runs' = [runs EXCEPT ![w] =
                    [@ EXCEPT !.pc = "batch_check", !.bn = @ + 1,
                              !.pauses = @ + 1]]
      /\ UNCHANGED <<size_text, nedits, test_prints, dry_run_btn, tree, listing, fe, mpc, ui, dir_var, current_directory, found_pdfs, batch_var,
                     batch_size, delay, is_printing, print_btn, stop_btn, search_btn,
                     afterq, searches, nsearch, shown, exit_status, batches>>

\* _print_finished, run from the callback queue: showinfo when no file
\* failed, showwarning when one did, no dialog when nothing was attempted
_print_finished ==
    /\ fe = "gui_linux" /\ mpc = "mainloop"
    /\ afterq # <<>> /\ Head(afterq).cb = "_print_finished"
    /\ LET successful == Head(afterq).s
           failed == Head(afterq).f
           total == runs[Head(afterq).run].total
       IN /\ is_printing' = FALSE
          /\ print_btn' = "normal"
          /\ stop_btn' = "disabled"
          /\ IF successful + failed > 0
             THEN /\ shown' = Append(shown,
                        Summary(IF failed = 0 THEN "all_printed" ELSE "partial",
                                successful, failed, total, Head(afterq).run))
                  /\ ui' = Append(ui, IF failed = 0 THEN "info" ELSE "warning")
             ELSE /\ shown' = Append(shown, Summary("cancelled", 0, 0, total,
                                                  Head(afterq).run))
                  /\ UNCHANGED ui
    /\ afterq' = Tail(afterq)
    /\ UNCHANGED <<size_text, nedits, test_prints, dry_run_btn, tree, listing, fe, mpc, dir_var, current_directory, found_pdfs, batch_var,
                   batch_size, delay, search_btn, runs, searches, nsearch,
                   exit_status, batches>>

\* test_printer (button and menu "Test printer"): a test page is written to
\* /tmp/printer_test.txt and handed to lp with subprocess.run(['lp', f],
\* timeout=30) on the main thread, without a question and outside any run.
\* The main thread waits for lp; a page that cannot be written is reported
\* at once.
test_printer ==
    /\ fe = "gui_linux" /\ mpc = "mainloop" /\ ui = <<>>
    /\ Extras < MaxExtras
    /\ \E written \in BOOLEAN :
        IF ~written
        THEN ui' = <<"error">> /\ UNCHANGED <<mpc, test_prints>>
        ELSE /\ test_prints' = Append(test_prints, TestPrint(TestPage, FALSE))
             /\ mpc' = "test_lp" /\ UNCHANGED ui
    /\ UNCHANGED <<size_text, nedits, dry_run_btn, tree, listing, fe, dir_var, current_directory,
                   found_pdfs, batch_var, batch_size, delay, is_printing,
                   print_btn, stop_btn, search_btn, runs, afterq, searches,
                   nsearch, shown, exit_status, batches>>

\* test_printer after subprocess.run returned or raised: showinfo when lp
\* returned 0, showerror otherwise
TestPrinterLpReturn ==
    /\ fe = "gui_linux" /\ mpc = "test_lp"
    /\ \E outcome \in LpTimedOutcomes :
        ui' = <<IF outcome = "ok" THEN "info" ELSE "error">>
    /\ mpc' = "mainloop"
    /\ UNCHANGED <<size_text, nedits, test_prints, dry_run_btn, tree, listing, fe, dir_var,
                   current_directory, found_pdfs, batch_var, batch_size, delay,
                   is_printing, print_btn, stop_btn, search_btn, runs, afterq,
                   searches, nsearch, shown, exit_status, batches>>

\* show_about (menu Help > Over): an information box
show_about ==
    /\ fe = "gui_linux" /\ mpc = "mainloop" /\ ui = <<>>
    /\ ui' = <<"info">>
    /\ UNCHANGED <<size_text, nedits, test_prints, dry_run_btn, tree, listing, fe, mpc, dir_var,
                   current_directory, found_pdfs, batch_var, batch_size, delay,
                   is_printing, print_btn, stop_btn, search_btn, runs, afterq,
                   searches, nsearch, shown, exit_status, batches>>

\* Bestand > Afsluiten (root.quit), the closing of the window or Ctrl-C ends
\* root.mainloop(); run() returns and the process ends with its threads
GuiQuit ==
    /\ fe = "gui_linux" /\ mpc = "mainloop" /\ ui = <<>>
    /\ mpc' = "exited" /\ exit_status' = 0
    /\ UNCHANGED <<size_text, nedits, test_prints, dry_run_btn, tree, listing, fe, ui, dir_var,
                   current_directory, found_pdfs, batch_var, batch_size, delay,
                   is_printing, print_btn, stop_btn, search_btn, runs, afterq,
                   searches, nsearch, shown, batches>>

(***************************************************************************)
(* gui_pdf_printer_windows.py: the Windows GUI.  It has no stop button.    *)
(***************************************************************************)
NotReported == 0 - 1

\* browse_directory with a directory chosen in the file dialog
WinGuiBrowse ==
    /\ fe = "gui_windows" /\ mpc = "mainloop" /\ ui = <<>>
    /\ \E directory \in DialogChoices :
        dir_var' = directory
    /\ search_btn' = "normal"
    /\ UNCHANGED <<size_text, nedits, test_prints, dry_run_btn, tree, listing, fe, mpc, ui, current_directory, found_pdfs, batch_var, batch_size,
                   delay, is_printing, print_btn, stop_btn, runs, afterq,
                   searches, nsearch, shown, exit_status, batches>>

\* search_pdfs: the search runs inside the handler
WinGuiSearch ==
    /\ fe = "gui_windows" /\ mpc = "mainloop" /\ ui = <<>>
    /\ search_btn = "normal"
    /\ IF dir_var = NoDir \/ ~exists(dir_var)
       THEN ui' = <<"error">> /\ UNCHANGED <<found_pdfs, print_btn, dry_run_btn>>
       ELSE /\ found_pdfs' = find_pdf_files(dir_var)
            /\ IF find_pdf_files(dir_var) = <<>>
               THEN ui' = <<"info">> /\ UNCHANGED <<print_btn, dry_run_btn>>
               ELSE print_btn' = "normal" /\ dry_run_btn' = "normal" /\ UNCHANGED ui
    /\ UNCHANGED <<size_text, nedits, test_prints, tree, listing, fe, mpc, dir_var, current_directory,
                   batch_var, batch_size, delay, is_printing, stop_btn, search_btn,
                   runs, afterq, searches, nsearch, shown, exit_status, batches>>

\* start_printing up to its dialog: a warning without files or while a run
\* is in progress, else the confirmation question
WinGuiStartPrinting ==
    /\ fe = "gui_windows" /\ mpc = "mainloop" /\ ui = <<>>
    /\ print_btn = "normal"
    /\ Len(runs) < MaxWinGuiRuns \/ found_pdfs = <<>> \/ is_printing
    /\ ui' = IF found_pdfs = <<>> \/ is_printing THEN <<"warning">> ELSE <<"confirm">>
    /\ UNCHANGED <<size_text, nedits, test_prints, dry_run_btn, tree, listing, fe, mpc, dir_var, current_directory, found_pdfs, batch_var,
                   batch_size, delay, is_printing, print_btn, stop_btn, search_btn,
                   runs, afterq, searches, nsearch, shown, exit_status, batches>>

\* start_printing after askyesno returned: the batch size is read here,
\* with 10 in place of a text that is no integer
WinGuiConfirm ==
    /\ fe = "gui_windows" /\ mpc = "mainloop"
    /\ ui # <<>> /\ ui[Len(ui)] = "confirm"
    /\ ui' = SubSeq(ui, 1, Len(ui) - 1)
    /\ \E result \in BOOLEAN :
        IF result
        THEN LET B == IF IntOk(batch_var) THEN IntVal(batch_var) ELSE 10 IN
             /\ batch_size' = B
             /\ is_printing' = TRUE
             /\ print_btn' = "disabled"
             /\ dry_run_btn' = "disabled"
             /\ runs' = Append(runs, StartedBy(NewRun(<<>>, B, <<>>, "start"), result))
        ELSE UNCHANGED <<batch_size, is_printing, print_btn, dry_run_btn, runs>>
    /\ UNCHANGED <<size_text, nedits, test_prints, tree, listing, fe, mpc, dir_var, current_directory,
                   found_pdfs, batch_var, delay, stop_btn, search_btn, afterq,
                   searches, nsearch, shown, exit_status, batches>>

\* print_worker, first statement: total_files = len(self.found_pdfs)
WinGuiWorkerStart ==
    \E w \in RunIds :
      /\ fe = "gui_windows" /\ mpc # "exited"
      /\ runs[w].pc = "start"
      /\ runs' = [runs EXCEPT ![w].pc = "loop", ![w].total = Len(found_pdfs)]
      /\ UNCHANGED <<size_text, nedits, test_prints, dry_run_btn, tree, listing, fe, mpc, ui, dir_var,
                     current_directory, found_pdfs, batch_var, batch_size, delay,
                     is_printing, print_btn, stop_btn, search_btn, afterq,
                     searches, nsearch, shown, exit_status, batches>>

\* print_worker, start of the loop: enumerate(self.found_pdfs) takes the
\* list as it is by now, after two calls of root.after
WinGuiWorkerLoop ==
    \E w \in RunIds :
      /\ fe = "gui_windows" /\ mpc # "exited"
      /\ runs[w].pc = "loop"
      /\ runs' = [runs EXCEPT ![w].pc = "file_check", ![w].plan = found_pdfs]
      /\ UNCHANGED <<size_text, nedits, test_prints, dry_run_btn, tree, listing, fe, mpc, ui, dir_var,
                     current_directory, found_pdfs, batch_var, batch_size, delay,
                     is_printing, print_btn, stop_btn, search_btn, afterq,
                     searches, nsearch, shown, exit_status, batches>>

\* print_worker, head of the loop: leave the loop when the files are used
\* up or is_printing is off.  The file is handed to os.startfile only after
\* root.after, which waits for the main thread.
WinGuiFileCheck ==
    \E w \in RunIds :
      /\ fe = "gui_windows" /\ mpc # "exited"
      /\ runs[w].pc = "file_check"
      /\ LET r == runs[w] IN
          runs' = [runs EXCEPT ![w] =
                     IF r.k > Len(r.plan) \/ ~is_printing
                     THEN [@ EXCEPT !.pc = "after_loop"]
                     ELSE [@ EXCEPT !.pc = "submit"]]
      /\ UNCHANGED <<size_text, nedits, test_prints, dry_run_btn, tree, listing, fe, mpc, ui, dir_var,
                     current_directory, found_pdfs, batch_var, batch_size, delay,
                     is_printing, print_btn, stop_btn, search_btn, afterq,
                     searches, nsearch, shown, exit_status, batches>>

\* print_worker after the loop: if self.is_printing
WinGuiAfterLoop ==
    \E w \in RunIds :
      /\ fe = "gui_windows" /\ mpc # "exited"
      /\ runs[w].pc = "after_loop"
      /\ runs' = [runs EXCEPT ![w].pc = IF is_printing THEN "completed" ELSE "finally"]
      /\ UNCHANGED <<size_text, nedits, test_prints, dry_run_btn, tree, listing, fe, mpc, ui, dir_var,
                     current_directory, found_pdfs, batch_var, batch_size, delay,
                     is_printing, print_btn, stop_btn, search_btn, afterq,
                     searches, nsearch, shown, exit_status, batches>>

\* print_worker: the completion message is queued; it tells printed_count
\* and total_files
WinGuiQueueCompleted ==
    \E w \in RunIds :
      /\ fe = "gui_windows" /\ mpc # "exited"
      /\ runs[w].pc = "completed"
      /\ afterq' = Append(afterq, Callback("showinfo", <<>>, runs[w].successful,
                                           NotReported, w))
      /\ runs' = [runs EXCEPT ![w].pc = "finally"]
      /\ UNCHANGED <<size_text, nedits, test_prints, dry_run_btn, tree, listing, fe, mpc, ui, dir_var,
                     current_directory, found_pdfs, batch_var, batch_size, delay,
                     is_printing, print_btn, stop_btn, search_btn, searches,
                     nsearch, shown, exit_status, batches>>

\* print_worker, finally block: self.is_printing = False
WinGuiFinally ==
    \E w \in RunIds :
      /\ fe = "gui_windows" /\ mpc # "exited"
      /\ runs[w].pc = "finally"
      /\ is_printing' = FALSE
      /\ runs' = [runs EXCEPT ![w].pc = "enable_print_btn"]
      /\ UNCHANGED <<size_text, nedits, test_prints, dry_run_btn, tree, listing, fe, mpc, ui, dir_var,
                     current_directory, found_pdfs, batch_var, batch_size, delay,
                     print_btn, stop_btn, search_btn, afterq, searches, nsearch,
                     shown, exit_status, batches>>

\* print_worker, finally block: the two button updates are queued one after
\* the other
WinGuiQueueButton ==
    \E w \in RunIds :
      /\ fe = "gui_windows" /\ mpc # "exited"
      /\ runs[w].pc \in {"enable_print_btn", "enable_dry_run_btn"}
      /\ afterq' = Append(afterq, Callback(runs[w].pc, <<>>, 0, 0, w))
      /\ runs' = [runs EXCEPT ![w].pc = IF @ = "enable_print_btn"
                                        THEN "enable_dry_run_btn" ELSE "done"]
      /\ UNCHANGED <<size_text, nedits, test_prints, dry_run_btn, tree, listing, fe, mpc, ui, dir_var,
                     current_directory, found_pdfs, batch_var, batch_size, delay,
                     is_printing, print_btn, stop_btn, search_btn, searches,
                     nsearch, shown, exit_status, batches>>

\* print_worker: the file is handed to os.startfile, which returns or
\* raises.  A return counts the file as printed; an exception is caught and
\* written to the log with the name of the file, and the loop goes on.
WinGuiSubmit ==
    \E w \in RunIds :
      /\ fe = "gui_windows" /\ mpc # "exited"
      /\ runs[w].pc = "submit"
      /\ \E outcome \in StartfileOutcomes :
          LET r == runs[w] IN
          runs' = [runs EXCEPT ![w] =
                     IF outcome = "ok"
                     THEN [@ EXCEPT !.pc = "pause",
                                    !.submitted = Append(@, r.plan[r.k]),
                                    !.successful = @ + 1]
                     ELSE [@ EXCEPT !.pc = "file_check", !.k = @ + 1,
                                    !.submitted = Append(@, r.plan[r.k])]]
      /\ UNCHANGED <<size_text, nedits, test_prints, dry_run_btn, tree, listing, fe, mpc, ui, dir_var,
                     current_directory, found_pdfs, batch_var, batch_size, delay,
                     is_printing, print_btn, stop_btn, search_btn, afterq,
                     searches, nsearch, shown, exit_status, batches>>

\* print_worker, after the two progress updates, which wait for the main
\* thread: the pause test divides by self.batch_size, and time.sleep(3) or
\* time.sleep(0.5) follows.  The ZeroDivisionError of the test is caught
\* like every exception and no sleep is taken.
WinGuiPause ==
    \E w \in RunIds :
      /\ fe = "gui_windows" /\ mpc # "exited"
      /\ runs[w].pc = "pause"
      /\ LET r == runs[w]
             i == r.k - 1
             pause == batch_size # 0 /\ PyMod(i + 1, batch_size) = 0
                      /\ i + 1 < r.total
         IN runs' = [runs EXCEPT ![w] =
                       [@ EXCEPT !.pc = "file_check", !.k = @ + 1,
                                 !.pauses = IF pause THEN @ + 1 ELSE @,
                                 !.delays = IF pause \/ batch_size = 0
                                            THEN @ ELSE @ + 1]]
      /\ UNCHANGED <<size_text, nedits, test_prints, dry_run_btn, tree, listing, fe, mpc, ui, dir_var,
                     current_directory, found_pdfs, batch_var, batch_size, delay,
                     is_printing, print_btn, stop_btn, search_btn, afterq,
                     searches, nsearch, shown, exit_status, batches>>

\* the queued messagebox.showinfo("Voltooid", ...) of print_worker
WinGuiShowCompleted ==
    /\ fe = "gui_windows" /\ mpc = "mainloop"
    /\ afterq # <<>> /\ Head(afterq).cb = "showinfo"
    /\ shown' = Append(shown, Summary("completed", Head(afterq).s, Head(afterq).f,
                                      runs[Head(afterq).run].total,
                                      Head(afterq).run))
    /\ ui' = Append(ui, "info")
    /\ afterq' = Tail(afterq)
    /\ UNCHANGED <<size_text, nedits, test_prints, dry_run_btn, tree, listing, fe, mpc, dir_var, current_directory, found_pdfs, batch_var,
                   batch_size, delay, is_printing, print_btn, stop_btn, search_btn,
                   runs, searches, nsearch, exit_status, batches>>

\* the queued print_btn.config(state='normal') of print_worker
WinGuiEnableButtons ==
    /\ fe = "gui_windows" /\ mpc = "mainloop"
    /\ afterq # <<>> /\ Head(afterq).cb = "enable_print_btn"
    /\ print_btn' = "normal"
    /\ afterq' = Tail(afterq)
    /\ UNCHANGED <<size_text, nedits, test_prints, dry_run_btn, tree, listing, fe, mpc, ui, dir_var,
                   current_directory, found_pdfs, batch_var, batch_size, delay,
                   is_printing, stop_btn, search_btn, runs, searches, nsearch,
                   shown, exit_status, batches>>

\* the queued dry_run_btn.config(state='normal') of print_worker
WinGuiEnableDryRun ==
    /\ fe = "gui_windows" /\ mpc = "mainloop"
    /\ afterq # <<>> /\ Head(afterq).cb = "enable_dry_run_btn"
    /\ dry_run_btn' = "normal"
    /\ afterq' = Tail(afterq)
    /\ UNCHANGED <<size_text, nedits, test_prints, tree, listing, fe, mpc, ui, dir_var, current_directory,
                   found_pdfs, batch_var, batch_size, delay, is_printing,
                   print_btn, stop_btn, search_btn, runs, searches, nsearch, shown,
                   exit_status, batches>>

\* test_printer (button "Test Printer"): the user picks a file in a dialog
\* and it is handed to os.startfile(file, "print") without a question and
\* outside any run; a message box tells how it went
WinGuiTestPrinter ==
    /\ fe = "gui_windows" /\ mpc = "mainloop" /\ ui = <<>>
    /\ Extras < MaxExtras
    /\ \E test_file \in TestFiles, outcome \in StartfileOutcomes :
        /\ test_prints' = Append(test_prints, TestPrint(test_file, FALSE))
        /\ ui' = <<IF outcome = "ok" THEN "info" ELSE "error">>
    /\ UNCHANGED <<size_text, nedits, dry_run_btn, tree, listing, fe, mpc, dir_var, current_directory,
                   found_pdfs, batch_var, batch_size, delay, is_printing,
                   print_btn, stop_btn, search_btn, runs, afterq, searches,
                   nsearch, shown, exit_status, batches>>

\* run(): the closing of the window or Ctrl-C ends root.mainloop(); run()
\* and main() return and the process ends with its print thread
WinGuiQuit ==
    /\ fe = "gui_windows" /\ mpc = "mainloop" /\ ui = <<>>
    /\ mpc' = "exited" /\ exit_status' = 0
    /\ UNCHANGED <<size_text, nedits, test_prints, dry_run_btn, tree, listing, fe, ui, dir_var,
                   current_directory, found_pdfs, batch_var, batch_size, delay,
                   is_printing, print_btn, stop_btn, search_btn, runs, afterq,
                   searches, nsearch, shown, batches>>

(***************************************************************************)
(* start_printer_windows.py: the launcher of the Windows front ends.  The  *)
(* front end it starts is a process of its own.                            *)
(***************************************************************************)
\* main choices 1, 2, 3: launch_gui, launch_interactive, launch_cli run the
\* front end with subprocess.run(..., check=True) and wait for it; only
\* FileNotFoundError is caught, so a front end that exits with another
\* status than 0 ends the launcher with CalledProcessError
LauncherLaunch ==
    /\ fe = "launcher_windows" /\ mpc = "menu"
    /\ \E status \in {0, 1} :
        IF status = 0 THEN UNCHANGED <<mpc, exit_status>>
        ELSE mpc' = "exited" /\ exit_status' = 1
    /\ UNCHANGED <<size_text, nedits, test_prints, dry_run_btn, tree, listing, fe, ui, dir_var,
                   current_directory, found_pdfs, batch_var, batch_size, delay,
                   is_printing, print_btn, stop_btn, search_btn, runs, afterq,
                   searches, nsearch, shown, batches>>

\* main choice 4: printer_setup lists the printers and, on choice 1, hands
\* the file the user names to os.startfile(path, "print") if the path
\* exists, without a question and outside any run; how os.startfile ends is
\* only printed
printer_setup ==
    /\ fe = "launcher_windows" /\ mpc = "menu"
    /\ Extras < MaxExtras
    /\ \E wmic \in BOOLEAN, choice \in {"1", "2", "3", "4"}, test_file \in TestFiles,
          there \in BOOLEAN :
        test_prints' = IF wmic /\ choice = "1" /\ there
                       THEN Append(test_prints, TestPrint(test_file, FALSE)) ELSE test_prints
    /\ UNCHANGED <<size_text, nedits, dry_run_btn, tree, listing, fe, mpc, ui, dir_var, current_directory,
                   found_pdfs, batch_var, batch_size, delay, is_printing,
                   print_btn, stop_btn, search_btn, runs, afterq, searches,
                   nsearch, shown, exit_status, batches>>

\* main choice q: leave
LauncherQuit ==
    /\ fe = "launcher_windows" /\ mpc = "menu"
    /\ mpc' = "exited" /\ exit_status' = 0
    /\ UNCHANGED <<size_text, nedits, test_prints, dry_run_btn, tree, listing, fe, ui, dir_var,
                   current_directory, found_pdfs, batch_var, batch_size, delay,
                   is_printing, print_btn, stop_btn, search_btn, runs, afterq,
                   searches, nsearch, shown, batches>>

\* Ctrl-C or the end of input at an input() of the launcher: main() catches
\* neither.  EOFError ends the interpreter with status 1, KeyboardInterrupt
\* ends it by the interrupt signal (130 to a shell)
LauncherInterrupt ==
    /\ fe = "launcher_windows" /\ mpc = "menu"
    /\ \E key \in {Interrupt, EndOfInput} :
        exit_status' = IF key = EndOfInput THEN 1 ELSE 130
    /\ mpc' = "exited"
    /\ UNCHANGED <<size_text, nedits, test_prints, dry_run_btn, tree, listing, fe, ui, dir_var,
                   current_directory, found_pdfs, batch_var, batch_size, delay,
                   is_printing, print_btn, stop_btn, search_btn, runs, afterq,
                   searches, nsearch, shown, batches>>

Launcher == LauncherLaunch \/ printer_setup \/ LauncherQuit \/ LauncherInterrupt

(***************************************************************************)
(* The dry runs and previews of the menus and the GUIs.                    *)
(***************************************************************************)
PreviewLimit == 20      \* show_print_preview: "Toon max 20 items"

\* a dry run that hands the first file of the list to lp
dry_run_printing ==
    /\ fe = "menu_linux" /\ mpc = "menu"
    /\ found_pdfs # <<>> /\ Len(runs) < MaxMenuRuns
    /\ listing' = [kind |-> "dry_run",
                   lines |-> SliceLines(MakeBatches(found_pdfs, batch_size), 1, 0)]
    /\ runs' = Append(runs, [NewRun(found_pdfs, batch_size, <<>>, "done")
                               EXCEPT !.submitted = <<found_pdfs[1]>>])
    /\ UNCHANGED <<size_text, nedits, test_prints, dry_run_btn, tree, fe, mpc, ui, dir_var, current_directory, found_pdfs, batch_var,
                   batch_size, delay, is_printing, print_btn, stop_btn, search_btn,
                   afterq, searches, nsearch, shown, exit_status, batches>>

\* interactive_pdf_printer.py dry_run (main_loop "Instellingen", then
\* "Droge run" in configure_settings)
dry_run ==
    /\ fe = "menu_linux" /\ mpc = "menu"
    /\ Extras < MaxExtras
    /\ listing' = IF found_pdfs = <<>> THEN listing
                   ELSE [kind |-> "dry_run",
                         lines |-> SliceLines(MakeBatches(found_pdfs, batch_size), 1, 0)]
    /\ UNCHANGED <<size_text, nedits, test_prints, dry_run_btn, tree, fe, mpc, ui, dir_var, current_directory, found_pdfs, batch_var,
                   batch_size, delay, is_printing, print_btn, stop_btn, search_btn,
                   runs, afterq, searches, nsearch, shown, exit_status, batches>>

\* interactive_pdf_printer_windows.py show_print_preview (main_menu choice
\* 3): the loop over the files breaks after the line of file number 20
show_print_preview ==
    /\ fe = "menu_windows" /\ mpc = "menu"
    /\ Extras < MaxExtras
    /\ listing' = IF found_pdfs = <<>> THEN listing
                   ELSE [kind |-> "preview",
                         lines |-> SubSeq(NumberedLines(found_pdfs, batch_size), 1,
                                          Min(Len(found_pdfs), PreviewLimit))]
    /\ UNCHANGED <<size_text, nedits, test_prints, dry_run_btn, tree, fe, mpc, ui, dir_var, current_directory, found_pdfs, batch_var,
                   batch_size, delay, is_printing, print_btn, stop_btn, search_btn,
                   runs, afterq, searches, nsearch, shown, exit_status, batches>>

\* gui_pdf_printer.py show_preview, the handler of the preview button (the
\* button stays enabled once a search has found files).  int() of the
\* batch text or range() with step 0 raises ValueError, which ends the
\* handler before the window is made.
show_preview ==
    /\ fe = "gui_linux" /\ mpc = "mainloop" /\ ui = <<>>
    /\ dry_run_btn = "normal"
    /\ Extras < MaxExtras
    /\ IF found_pdfs = <<>>
       THEN ui' = <<"info">> /\ UNCHANGED listing
       ELSE IF ~IntOk(batch_var) \/ IntVal(batch_var) = 0
       THEN UNCHANGED <<ui, listing>>
       ELSE /\ listing' = [kind |-> "preview",
                           lines |-> SliceLines(MakeBatches(found_pdfs,
                                                            IntVal(batch_var)), 1, 0)]
            /\ UNCHANGED ui
    /\ UNCHANGED <<size_text, nedits, test_prints, dry_run_btn, tree, fe, mpc, dir_var, current_directory, found_pdfs, batch_var,
                   batch_size, delay, is_printing, print_btn, stop_btn, search_btn,
                   runs, afterq, searches, nsearch, shown, exit_status, batches>>

\* gui_pdf_printer_windows.py dry_run, the handler of the dry-run button
\* (enabled and disabled together with the print button).  A text that is
\* no integer counts as 10; with 0 the first (i - 1) // batch_size raises
\* ZeroDivisionError after the window was made, which stays empty.
WinGuiDryRun ==
    /\ fe = "gui_windows" /\ mpc = "mainloop" /\ ui = <<>>
    /\ dry_run_btn = "normal"
    /\ Extras < MaxExtras
    /\ IF found_pdfs = <<>>
       THEN ui' = <<"warning">> /\ UNCHANGED listing
       ELSE LET B == IF IntOk(batch_var) THEN IntVal(batch_var) ELSE 10 IN
            /\ listing' = [kind |-> "preview",
                           lines |-> IF B = 0 THEN <<>>
                                     ELSE NumberedLines(found_pdfs, B)]
            /\ UNCHANGED ui
    /\ UNCHANGED <<size_text, nedits, test_prints, dry_run_btn, tree, fe, mpc, dir_var, current_directory, found_pdfs, batch_var,
                   batch_size, delay, is_printing, print_btn, stop_btn, search_btn,
                   runs, afterq, searches, nsearch, shown, exit_status, batches>>

(***************************************************************************)
(* The front ends.                                                         *)
(***************************************************************************)
LinuxCli == LinuxCliMain \/ LinuxCliPrintFile \/ LinuxCliFinish
WinCli == WinCliMain \/ WinCliPrintFile \/ WinCliFinish
LinuxMenu == \/ LinuxMenuSelect \/ LinuxMenuPreviewChoice
             \/ LinuxMenuConfirm \/ LinuxMenuPrintFile \/ LinuxMenuFinish
             \/ set_batch_size \/ LinuxMenuTestPrinter \/ dry_run \/ LinuxMenuQuit

WinMenu == \/ WinMenuNavigate \/ manual_path_input \/ search_and_list_pdfs
           \/ configure_print_settings
           \/ show_print_preview \/ test_windows_printer \/ WinMenuPrintStart
           \/ WinMenuPrintFile \/ WinMenuFinish \/ WinMenuQuit

LinuxGui == \/ browse_directory \/ GuiEditBatch \/ search_pdfs \/ _search_thread
            \/ _update_pdf_list \/ start_printing \/ GuiConfirm \/ GuiDismiss
            \/ stop_printing \/ _print_finished
            \/ GuiThreadStart \/ GuiThreadPlan \/ GuiThreadSlice
            \/ GuiBatchCheck \/ GuiThreadFinished
            \/ GuiFileCheck \/ GuiSubmit \/ GuiLpReturn
            \/ GuiAfterBatch \/ GuiPause \/ test_printer \/ TestPrinterLpReturn
            \/ show_about \/ show_preview \/ GuiQuit

WinGui == \/ WinGuiBrowse \/ WinGuiSearch \/ WinGuiStartPrinting \/ WinGuiConfirm
          \/ WinGuiShowCompleted \/ WinGuiEnableButtons \/ WinGuiEnableDryRun
          \/ WinGuiWorkerStart \/ WinGuiWorkerLoop \/ WinGuiFileCheck
          \/ WinGuiSubmit \/ WinGuiAfterLoop \/ WinGuiQueueCompleted
          \/ WinGuiPause \/ WinGuiFinally \/ WinGuiQueueButton
          \/ WinGuiTestPrinter \/ WinGuiDryRun \/ GuiEditBatch \/ GuiDismiss
          \/ WinGuiQuit

Next == LinuxCli \/ WinCli \/ LinuxMenu \/ WinMenu \/ LinuxGui \/ WinGui \/ Launcher

Spec == Init /\ [][Next]_vars

\* the two command-line tools alone
InitCli == \E f \in {"cli_linux", "cli_windows"} : InitFor(f)
NextCli == LinuxCli \/ WinCli
SpecCli == InitCli /\ [][NextCli]_vars

\* the Linux GUI alone
InitLinuxGui == InitFor("gui_linux")
SpecLinuxGui == InitLinuxGui /\ [][LinuxGui]_vars

\* the Windows GUI and the launcher that starts it
InitWinGui == \E f \in {"gui_windows", "launcher_windows"} : InitFor(f)
NextWinGui == WinGui \/ Launcher
SpecWinGui == InitWinGui /\ [][NextWinGui]_vars

(***************************************************************************)
(* The two terminal menus alone.                                           *)
(***************************************************************************)
InitMenu == \E f \in {"menu_linux", "menu_windows"} : InitFor(f)

NextMenu == LinuxMenu \/ WinMenu

SpecMenu == InitMenu /\ [][NextMenu]_vars

(***************************************************************************)
(* The batching step alone, on every ordered list of at most MaxLen files  *)
(* and every batch size in 1..MaxB.                                        *)
(***************************************************************************)
FileLists ==
    UNION {{L \in [1..n -> 1..MaxLen] : \A i, j \in 1..n : L[i] = L[j] => i = j}
           : n \in 0..MaxLen}

InitBatch ==
    /\ fe = "batching"
    /\ mpc = "boot"
    /\ ui = <<>>
    /\ dir_var = NoDir
    /\ current_directory = "home"
    /\ found_pdfs \in FileLists
    /\ batch_var = <<"1", "0">>
    /\ batch_size \in 1..MaxB
    /\ delay = 3
    /\ is_printing = FALSE
    /\ print_btn = "disabled"
    /\ stop_btn = "disabled"
    /\ test_prints = <<>>
    /\ size_text = <<>>
    /\ nedits = 0
    /\ dry_run_btn = "disabled"
    /\ search_btn = "disabled"
    /\ runs = <<>>
    /\ afterq = <<>>
    /\ searches = <<>>
    /\ nsearch = 0
    /\ shown = <<>>
    /\ exit_status = NoExit
    /\ batches = <<>>
    /\ listing = NoListing
    /\ tree = {}

\* the slicing of batch_pdf_printer.py, interactive_pdf_printer.py and
\* gui_pdf_printer.py
SliceBatches ==
    /\ fe = "batching" /\ mpc = "boot"
    /\ batches' = MakeBatches(found_pdfs, batch_size)
    /\ mpc' = "sliced"
    /\ UNCHANGED <<size_text, nedits, test_prints, dry_run_btn, tree, listing, fe, ui, dir_var, current_directory, found_pdfs, batch_var,
                   batch_size, delay, is_printing, print_btn, stop_btn, search_btn,
                   runs, afterq, searches, nsearch, shown, exit_status>>

\* the batch numbers of batch_pdf_printer_windows.py
NumberBatches ==
    /\ fe = "batching" /\ mpc = "boot"
    /\ batches' = GroupByBatchNum(found_pdfs, batch_size)
    /\ mpc' = "numbered"
    /\ UNCHANGED <<size_text, nedits, test_prints, dry_run_btn, tree, listing, fe, ui, dir_var, current_directory, found_pdfs, batch_var,
                   batch_size, delay, is_printing, print_btn, stop_btn, search_btn,
                   runs, afterq, searches, nsearch, shown, exit_status>>

NextBatch == SliceBatches \/ NumberBatches

SpecBatch == InitBatch /\ [][NextBatch]_vars

(***************************************************************************)
(* Dry runs and previews alone: the command-line tools started with or     *)
(* without --dry-run / --list-only, and the preview handlers of the menus  *)
(* and the GUIs on a list that a search has left in found_pdfs.            *)
(***************************************************************************)
MaxFiles == 21          \* longest list a preview is asked for

PreviewLists == { [i \in 1..n |-> i] : n \in 0..MaxFiles }
\* values self.batch_size can have in the menus
MenuBatchSizes == {1, 2, 3, 10}

\* a command-line process at its start, or a menu or GUI process after a
\* search and a choice of batch size
InitPreview ==
    \E f \in FrontEnds :
        IF f \in {"cli_linux", "cli_windows"} THEN InitFor(f)
        ELSE
        /\ fe = f
        /\ mpc = IF f \in {"menu_linux", "menu_windows"} THEN "menu" ELSE "mainloop"
        /\ ui = <<>>
        /\ dir_var = IF f \in {"gui_linux", "gui_windows"} THEN "D" ELSE NoDir
        /\ current_directory = IF f \in {"menu_linux", "menu_windows"} THEN "D"
                               ELSE "home"
        /\ found_pdfs \in PreviewLists
        /\ batch_var \in (IF f \in {"gui_linux", "gui_windows"} THEN BatchTexts
                           ELSE { <<"1", "0">> })
        /\ batch_size \in (IF f \in {"menu_linux", "menu_windows"} THEN MenuBatchSizes
                            ELSE {10})
        /\ delay = 3
        /\ is_printing = FALSE
        /\ print_btn = (IF f \in {"gui_linux", "gui_windows"} THEN "normal"
                        ELSE "disabled")
        /\ stop_btn = "disabled"
        /\ test_prints = <<>>
        /\ size_text = <<>>
        /\ nedits = 0
        /\ dry_run_btn = (IF f \in {"gui_linux", "gui_windows"} THEN "normal"
                          ELSE "disabled")
        /\ search_btn = (IF f \in {"gui_linux", "gui_windows"} THEN "normal"
                         ELSE "disabled")
        /\ runs = <<>>
        /\ afterq = <<>>
        /\ searches = <<>>
        /\ nsearch = 0
        /\ shown = <<>>
        /\ exit_status = NoExit
        /\ batches = <<>>
        /\ listing = NoListing
    /\ tree = {}

NextPreview == \/ LinuxCli \/ WinCli
               \/ dry_run \/ show_print_preview \/ show_preview \/ WinGuiDryRun

SpecPreview == InitPreview /\ [][NextPreview]_vars

(***************************************************************************)
(* The choice of the directory and the search: the command-line tools     *)
(* started on any path, the menus at their start, and the GUIs with the    *)
(* path that browse_directory stored in dir_var (askdirectory is called    *)
(* without mustexist, and the path can have gone since).                   *)
(***************************************************************************)
InitSearch ==
    \E f \in FrontEnds :
        IF f \notin {"gui_linux", "gui_windows"} THEN InitFor(f)
        ELSE
        /\ fe = f
        /\ mpc = "mainloop"
        /\ ui = <<>>
        /\ dir_var \in Paths \cup {NoDir}
        /\ current_directory = "home"
        /\ found_pdfs = <<>>
        /\ batch_var = <<"1", "0">>
        /\ batch_size = 10
        /\ delay = 3
        /\ is_printing = FALSE
        /\ print_btn = "disabled"
        /\ stop_btn = "disabled"
        /\ test_prints = <<>>
        /\ size_text = <<>>
        /\ nedits = 0
        /\ dry_run_btn = "disabled"
        /\ search_btn = (IF dir_var = NoDir THEN "disabled" ELSE "normal")
        /\ runs = <<>>
        /\ afterq = <<>>
        /\ searches = <<>>
        /\ nsearch = 0
        /\ shown = <<>>
        /\ exit_status = NoExit
        /\ batches = <<>>
        /\ listing = NoListing
    /\ tree = {}

NextSearch == \/ LinuxCli \/ WinCli
              \/ LinuxMenuSelect \/ WinMenuNavigate \/ manual_path_input
              \/ search_and_list_pdfs
              \/ search_pdfs \/ _search_thread \/ _update_pdf_list
              \/ WinGuiSearch \/ GuiDismiss

SpecSearch == InitSearch /\ [][NextSearch]_vars

(***************************************************************************)
(* Discovery and ordering on files with names.  A file is a record of the *)
(* names of the directories from the root down to it and its own name; a   *)
(* name is a sequence of characters.                                       *)
(***************************************************************************)
MaxTree == 3            \* PDF files in the tree under the root

\* ord() of the characters that occur
Ord == ("-" :> 45) @@ ("." :> 46) @@ ("/" :> 47) @@ ("1" :> 49) @@ ("2" :> 50)
       @@ ("A" :> 65) @@ ("B" :> 66) @@ ("R" :> 82) @@ ("\\" :> 92)
       @@ ("a" :> 97) @@ ("b" :> 98) @@ ("d" :> 100) @@ ("f" :> 102)
       @@ ("p" :> 112) @@ ("r" :> 114) @@ ("x" :> 120)
       @@ ("D" :> 68) @@ ("F" :> 70) @@ ("P" :> 80) @@ ("t" :> 116)

\* s < t of two Python strings
RECURSIVE StrLess(_, _)
StrLess(s, t) ==
    IF t = <<>> THEN FALSE
    ELSE IF s = <<>> THEN TRUE
    ELSE IF Head(s) # Head(t) THEN Ord[Head(s)] < Ord[Head(t)]
    ELSE StrLess(Tail(s), Tail(t))

\* k < l and k <= l of two tuples (str, str)
KeyLess(k, l) == StrLess(k[1], l[1]) \/ (k[1] = l[1] /\ StrLess(k[2], l[2]))
KeyLeq(k, l) == k = l \/ KeyLess(k, l)

\* os.path.join of the parts with separator sep
RECURSIVE JoinPath(_, _)
JoinPath(parts, sep) ==
    IF parts = <<>> THEN <<>>
    ELSE IF Len(parts) = 1 THEN parts[1]
    ELSE parts[1] \o <<sep>> \o JoinPath(Tail(parts), sep)

endswith(s, suffix) ==
    Len(s) >= Len(suffix) /\ SubSeq(s, Len(s) - Len(suffix) + 1, Len(s)) = suffix

PdfName1 == <<"1", ".", "p", "d", "f">>
PdfName2 == <<"2", ".", "p", "d", "f">>
File(dir, name) == [dir |-> dir, name |-> name]

\* the PDF files a tree under the root can hold
FileUniverse ==
    { File(<< <<"A">> >>, PdfName1), File(<< <<"A">> >>, PdfName2),
      File(<< <<"B">> >>, PdfName1), File(<< <<"a">> >>, PdfName1),
      File(<< <<"A">>, <<"x">> >>, PdfName1), File(<< <<"A">>, <<"x">> >>, PdfName2),
      File(<< <<"A", "-", "b">> >>, PdfName1), File(<<>>, PdfName1) }

Root == <<"R">>

\* list.sort() of a list of distinct strings
RECURSIVE SortStrings(_)
SortStrings(S) ==
    IF S = {} THEN <<>>
    ELSE LET m == CHOOSE x \in S : \A y \in S : x = y \/ StrLess(x, y)
         IN  <<m>> \o SortStrings(S \ {m})

\* the loop over os.walk: in each directory the PDF names in sorted order,
\* then the sub-directories in sorted order, each walked the same way
RECURSIVE os_walk(_, _)
os_walk(S, top) ==
    LET here == {f \in S : f.dir = top /\ endswith(lower(f.name), <<".", "p", "d", "f">>)}
        below == {f \in S : Len(f.dir) > Len(top) /\ SubSeq(f.dir, 1, Len(top)) = top}
        pdf_files_in_dir == SortStrings({f.name : f \in here})
        dirs == SortStrings({f.dir[Len(top) + 1] : f \in below})
    IN  [i \in 1..Len(pdf_files_in_dir) |-> File(top, pdf_files_in_dir[i])]
        \o Concat([i \in 1..Len(dirs) |-> os_walk(below, Append(top, dirs[i]))])

\* one pass over the list that swaps neighbours standing in the wrong order
RECURSIVE BubbleFrom(_, _, _)
BubbleFrom(L, keys, i) ==
    IF i >= Len(L) THEN L
    ELSE IF KeyLess(keys[i + 1], keys[i])
    THEN BubbleFrom([L EXCEPT ![i] = L[i + 1], ![i + 1] = L[i]],
                    [keys EXCEPT ![i] = keys[i + 1], ![i + 1] = keys[i]], i + 1)
    ELSE BubbleFrom(L, keys, i + 1)
OnePassSort(L, keys) == BubbleFrom(L, keys, 1)

\* list.sort(key=...) / sorted(): L by ascending keys[i], entries with equal
\* keys in the order they had in L
RECURSIVE SortIndexes(_, _)
SortIndexes(keys, I) ==
    IF I = {} THEN <<>>
    ELSE LET m == CHOOSE i \in I : \A j \in I \ {i} :
                      \/ KeyLess(keys[i], keys[j])
                      \/ (keys[i] = keys[j] /\ i < j)
         IN  <<m>> \o SortIndexes(keys, I \ {m})
StableSort(L, keys) ==
    LET p == SortIndexes(keys, DOMAIN L) IN [i \in DOMAIN L |-> L[p[i]]]

\* key=lambda x: (x[0], x[1]) on (root, filename), root as os.walk gives it
LinuxSortKey(f) == <<JoinPath(<<Root>> \o f.dir, "/"), f.name>>
\* key=lambda x: (dirname(x[1]).lower(), basename(x[1]).lower()) on the
\* path relative to the root
WinCliSortKey(f) == <<lower(JoinPath(f.dir, "\\")), lower(f.name)>>
\* key=lambda x: (x[1].lower(), basename(x[0]).lower()), x[1] the directory
WinGuiSortKey(f) == <<lower(JoinPath(<<Root>> \o f.dir, "\\")), lower(f.name)>>

\* sort_pdf_files, sorted(pdf_tuples) and the sort of _update_pdf_list
sort_pdf_files(L) == StableSort(L, [i \in DOMAIN L |-> LinuxSortKey(L[i])])

\* the ordering step of front end f on the list that the walk returned; the
\* Windows menu has none
Ordering(f, L) ==
    IF f \in {"cli_linux", "menu_linux", "gui_linux"} THEN sort_pdf_files(L)
    ELSE IF f = "cli_windows"
    THEN StableSort(L, [i \in DOMAIN L |-> WinCliSortKey(L[i])])
    ELSE IF f = "gui_windows"
    THEN StableSort(L, [i \in DOMAIN L |-> WinGuiSortKey(L[i])])
    ELSE L

InitOrder ==
    /\ fe \in FrontEnds
    /\ mpc = "discover"
    /\ tree \in {S \in SUBSET FileUniverse : Cardinality(S) <= MaxTree}
    /\ ui = <<>>
    /\ dir_var = NoDir
    /\ current_directory = "home"
    /\ found_pdfs = <<>>
    /\ batch_var = <<"1", "0">>
    /\ batch_size = 10
    /\ delay = 3
    /\ is_printing = FALSE
    /\ print_btn = "disabled"
    /\ stop_btn = "disabled"
    /\ test_prints = <<>>
    /\ size_text = <<>>
    /\ nedits = 0
    /\ dry_run_btn = "disabled"
    /\ search_btn = "disabled"
    /\ runs = <<>>
    /\ afterq = <<>>
    /\ searches = <<>>
    /\ nsearch = 0
    /\ shown = <<>>
    /\ exit_status = NoExit
    /\ batches = <<>>
    /\ listing = NoListing

\* the walk of find_pdf_files / _search_thread
WalkTree ==
    /\ mpc = "discover"
    /\ found_pdfs' = os_walk(tree, <<>>)
    /\ mpc' = "walked"
    /\ UNCHANGED <<size_text, nedits, test_prints, dry_run_btn, tree, listing, fe, ui, dir_var, current_directory, batch_var,
                   batch_size, delay, is_printing, print_btn, stop_btn, search_btn,
                   runs, afterq, searches, nsearch, shown, exit_status, batches>>

\* the ordering step that follows the walk
OrderFound ==
    /\ mpc = "walked"
    /\ found_pdfs' = Ordering(fe, found_pdfs)
    /\ mpc' = "sorted"
    /\ UNCHANGED <<size_text, nedits, test_prints, dry_run_btn, tree, listing, fe, ui, dir_var, current_directory, batch_var,
                   batch_size, delay, is_printing, print_btn, stop_btn, search_btn,
                   runs, afterq, searches, nsearch, shown, exit_status, batches>>

\* the ordering step applied to its own result
OrderAgain ==
    /\ mpc = "sorted"
    /\ found_pdfs' = Ordering(fe, found_pdfs)
    /\ mpc' = "resorted"
    /\ UNCHANGED <<size_text, nedits, test_prints, dry_run_btn, tree, listing, fe, ui, dir_var, current_directory, batch_var,
                   batch_size, delay, is_printing, print_btn, stop_btn, search_btn,
                   runs, afterq, searches, nsearch, shown, exit_status, batches>>

NextOrder == WalkTree \/ OrderFound \/ OrderAgain

SpecOrder == InitOrder /\ [][NextOrder]_vars

(***************************************************************************)
(* Discovery on trees that also hold files that are no PDF files.          *)
(***************************************************************************)
PdfUpper == <<"2", ".", "P", "D", "F">>
TxtName == <<"1", ".", "t", "x", "t">>
NoDotName == <<"p", "d", "f">>

\* the files a tree under the root can hold
DiscoverUniverse ==
    { File(d, n) : d \in { <<>>, << <<"A">> >>, << <<"A">>, <<"x">> >> },
                   n \in {PdfName1, PdfUpper, TxtName, NoDotName} }

InitDiscover ==
    /\ fe \in FrontEnds
    /\ mpc = "discover"
    /\ tree \in {S \in SUBSET DiscoverUniverse : Cardinality(S) <= MaxTree}
    /\ ui = <<>>
    /\ dir_var = NoDir
    /\ current_directory = "home"
    /\ found_pdfs = <<>>
    /\ batch_var = <<"1", "0">>
    /\ batch_size = 10
    /\ delay = 3
    /\ is_printing = FALSE
    /\ print_btn = "disabled"
    /\ stop_btn = "disabled"
    /\ test_prints = <<>>
    /\ size_text = <<>>
    /\ nedits = 0
    /\ dry_run_btn = "disabled"
    /\ search_btn = "disabled"
    /\ runs = <<>>
    /\ afterq = <<>>
    /\ searches = <<>>
    /\ nsearch = 0
    /\ shown = <<>>
    /\ exit_status = NoExit
    /\ batches = <<>>
    /\ listing = NoListing

\* find_pdf_files of the command-line and menu front ends, with the
\* ordering step of the front end
DiscoverFiles ==
    /\ mpc = "discover"
    /\ fe \in {"cli_linux", "cli_windows", "menu_linux", "menu_windows"}
    /\ found_pdfs' = Ordering(fe, os_walk(tree, <<>>))
    /\ mpc' = "found"
    /\ UNCHANGED <<size_text, nedits, test_prints, dry_run_btn, tree, listing, fe, ui, dir_var, current_directory, batch_var,
                   batch_size, delay, is_printing, print_btn, stop_btn, search_btn,
                   runs, afterq, searches, nsearch, shown, exit_status, batches>>

\* search_pdfs of the Windows GUI, which calls find_pdf_files on the main
\* thread: os.path.getsize is called on every PDF file met, and a file on
\* which it raises OSError is left out
DiscoverSized ==
    /\ mpc = "discover"
    /\ fe = "gui_windows"
    /\ \E oserror \in SUBSET tree :
        found_pdfs' = Ordering(fe, os_walk(tree \ oserror, <<>>))
    /\ mpc' = "found"
    /\ UNCHANGED <<size_text, nedits, test_prints, dry_run_btn, tree, listing, fe, ui, dir_var, current_directory, batch_var,
                   batch_size, delay, is_printing, print_btn, stop_btn, search_btn,
                   runs, afterq, searches, nsearch, shown, exit_status, batches>>

\* _search_thread of the Linux GUI: the walk in the search thread, with
\* os.path.getsize called on every PDF file met (a file on which it raises
\* OSError is left out); the list is handed to the main thread with
\* root.after(0, self._update_pdf_list, ...) and found_pdfs is not touched
DiscoverSearchThread ==
    /\ mpc = "discover"
    /\ fe = "gui_linux"
    /\ \E oserror \in SUBSET tree :
        afterq' = Append(afterq, Callback("_update_pdf_list",
                                         os_walk(tree \ oserror, <<>>), 0, 0, 0))
    /\ mpc' = "searched"
    /\ UNCHANGED <<size_text, nedits, test_prints, dry_run_btn, tree, listing, fe, ui, dir_var, current_directory, found_pdfs, batch_var,
                   batch_size, delay, is_printing, print_btn, stop_btn, search_btn,
                   runs, searches, nsearch, shown, exit_status, batches>>

\* _update_pdf_list of the Linux GUI, run from the callback queue: the
\* list is sorted by (directory, filename) and assigned to found_pdfs, and
\* the buttons are enabled
DiscoverUpdateList ==
    /\ mpc = "searched"
    /\ fe = "gui_linux"
    /\ afterq # <<>> /\ Head(afterq).cb = "_update_pdf_list"
    /\ found_pdfs' = Ordering(fe, Head(afterq).files)
    /\ dry_run_btn' = IF Head(afterq).files # <<>> THEN "normal" ELSE dry_run_btn
    /\ print_btn' = IF Head(afterq).files # <<>> THEN "normal" ELSE print_btn
    /\ search_btn' = "normal"
    /\ afterq' = Tail(afterq)
    /\ mpc' = "found"
    /\ UNCHANGED <<size_text, nedits, test_prints, tree, listing, fe, ui, dir_var, current_directory, batch_var,
                   batch_size, delay, is_printing, stop_btn,
                   runs, searches, nsearch, shown, exit_status, batches>>

NextDiscover == \/ DiscoverFiles \/ DiscoverSized
                \/ DiscoverSearchThread \/ DiscoverUpdateList

SpecDiscover == InitDiscover /\ [][NextDiscover]_vars

(***************************************************************************)
(* Properties.                                                             *)
(***************************************************************************)
Guis == {"gui_linux", "gui_windows"}
Clis == {"cli_linux", "cli_windows"}

\* files of a run whose backend call has returned or raised
Attempted(r) == Len(r.submitted) - (IF r.pc = "lp" THEN 1 ELSE 0)

\* the files of plan whose outcome is a failure, in the order of plan
RECURSIVE FailuresOf(_, _)
FailuresOf(plan, outcomes) ==
    IF outcomes = <<>> THEN <<>>
    ELSE (IF Head(outcomes) = "ok" THEN <<>> ELSE <<Head(plan)>>)
         \o FailuresOf(Tail(plan), Tail(outcomes))

\* C1: whatever the outcome of submitting a file (exit status, print command
\* not found, timeout, OS error), it does not end the print loop: no run is
\* ever ended by an exception raised by the submission of a file.
C1_FileFailureNeverAborts ==
    \A w \in RunIds : runs[w].error \notin {"FileNotFoundError", "OSError"}

\* C2: in every state of every run the number of files whose submission has
\* been made equals the success counter plus the failure counter, and a
\* reported final tally adds up to the same number.
C2_AttemptedIsSucceededPlusFailed ==
    /\ \A w \in RunIds : Attempted(runs[w]) = runs[w].successful + runs[w].failed
    /\ \A i \in DOMAIN shown :
        shown[i].failed # NotReported
        => shown[i].successful + shown[i].failed = Len(runs[shown[i].run].submitted)

\* C3: in the GUI front ends at most one print worker is running at any
\* time, under every interleaving of user actions and thread steps.
C3_AtMostOneWorker ==
    fe \in Guis => Cardinality({w \in RunIds : Running(runs[w])}) <= 1

\* C4: once stop_printing has been invoked during a run, the worker of that
\* run submits no file but the one in flight: the file for which it had
\* passed the test of the flag when the stop came (pc = "submit").  After
\* the stop the worker passes that test for no further file.
C4_NoSubmitAfterStop ==
    [][\A w \in RunIds :
         (runs[w].cancelled /\ runs[w].pc # "submit")
         => /\ runs'[w].pc # "submit"
            /\ runs'[w].submitted = runs[w].submitted]_vars

\* C5: a started GUI run ends with is_printing = False and the print button
\* enabled: when no worker is running and no callback is pending, so that
\* nothing is left to happen for any started run, that is the state.
C5_RunsReachTerminal ==
    (/\ fe \in Guis
     /\ runs # <<>>
     /\ \A w \in RunIds : ~Running(runs[w])
     /\ afterq = <<>>)
    => (~is_printing /\ print_btn = "normal")

\* C6: the files submitted so far are always a prefix of the plan of the run
\* (plan order, each file at most once, the files left out are a suffix),
\* and no more files are counted than were submitted.
C6_SubmittedIsPrefixOfPlan ==
    \A w \in RunIds :
        /\ IsPrefix(runs[w].submitted, runs[w].plan)
        /\ runs[w].successful + runs[w].failed <= Len(runs[w].submitted)

\* C7: for every ordered list L and batch size B >= 1 the batches, formed by
\* slicing or by batch numbers alike, concatenate to exactly L, and every
\* batch but the last has exactly B files (the last has 1..B).
C7_BatchesPartitionList ==
    (fe = "batching" /\ mpc \in {"sliced", "numbered"})
    => /\ Concat(batches) = found_pdfs
       /\ \A b \in 1..(Len(batches) - 1) : Len(batches[b]) = batch_size
       /\ batches # <<>> => /\ Len(batches[Len(batches)]) >= 1
                            /\ Len(batches[Len(batches)]) <= batch_size
       /\ MakeBatches(found_pdfs, batch_size) = GroupByBatchNum(found_pdfs, batch_size)

\* C7 witness: a list cut into several batches with a short last batch
C7_Witness ==
    /\ fe = "batching" /\ mpc = "sliced"
    /\ Len(batches) >= 2
    /\ Len(batches[Len(batches)]) < batch_size

\* C8: a command-line run over N files that has run to its end has
\* attempted all N, counts as failed exactly the files the backend failed on
\* and as succeeded the others, and reports the failures in plan order.
C8_FinalTally ==
    fe \in Clis =>
        \A w \in RunIds :
            LET r == runs[w] IN
            r.pc = "done" =>
                /\ r.submitted = r.plan
                /\ r.failed = Len(FailuresOf(r.plan, r.outcomes))
                /\ r.successful = Len(r.plan) - r.failed
                /\ r.errors = FailuresOf(r.plan, r.outcomes)

\* C9: a command-line front end that ran its print run to completion exits
\* with a non-zero status if a file failed and with status 0 if none did.
C9_ExitStatusTellsFailure ==
    fe \in Clis =>
        \A w \in RunIds :
            (runs[w].pc = "done" /\ exit_status # NoExit)
            => (exit_status # 0 <=> runs[w].failed > 0)

\* C10: the summary shown for a run that was cancelled before its plan was
\* used up says that the run was cancelled and counts the attempted files;
\* it is never the summary of a run in which all files were printed.
C10_CancelledRunReportedCancelled ==
    \A i \in DOMAIN shown :
        LET r == runs[shown[i].run] IN
        (r.cancelled /\ Len(r.submitted) < Len(r.plan))
        => /\ shown[i].kind = "cancelled"
           /\ shown[i].successful + shown[i].failed = Len(r.submitted)

\* C11: a run whose cancellation was requested before its worker had
\* passed the test of the flag for its first file never submits a file, and
\* the summary shown for a cancelled run that submitted nothing says
\* cancelled with 0 files succeeded and 0 failed.
C11_CancelBeforeFirstFile ==
    [][/\ \A w \in RunIds :
            (runs[w].cancelled /\ runs[w].submitted = <<>> /\ runs[w].pc # "submit")
            => /\ runs'[w].pc # "submit"
               /\ runs'[w].submitted = <<>>
       /\ \A i \in DOMAIN shown' :
            LET r == runs'[shown'[i].run] IN
            (r.cancelled /\ r.submitted = <<>>)
            => /\ shown'[i].kind = "cancelled"
               /\ shown'[i].successful = 0
               /\ shown'[i].failed = 0]_vars

\* ceil(n / b) for b >= 1
CeilDiv(n, b) == (n + b - 1) \div b

\* C12: a run over N > 0 files with batch size B >= 1 that was not
\* cancelled and went through its whole plan has paused exactly
\* ceil(N/B) - 1 times, once after every batch but the last, whatever the
\* outcomes of the files.
C12_PauseAfterEveryBatchButLast ==
    \A w \in RunIds :
        LET r == runs[w] IN
        (/\ r.pc = "done" /\ ~r.cancelled
         /\ r.plan # <<>> /\ r.submitted = r.plan
         /\ r.B >= 1)
        => r.pauses = CeilDiv(Len(r.plan), r.B) - 1

\* C13: a dry run, a list-only run and a preview hand no file to the print
\* backend: whenever the listing of one of them has been written out, no
\* file has been submitted.
C13_DryRunSubmitsNothing ==
    listing.kind \in {"dry_run", "list_only", "preview"}
    => \A w \in RunIds : runs[w].submitted = <<>>

\* C13 witness: a dry run of the Windows command line has listed several
\* files
C13_Witness ==
    /\ fe = "cli_windows" /\ listing.kind = "dry_run"
    /\ Len(listing.lines) >= 2

\* the batch size a run or listing started now would use: the menus and
\* command-line tools use batch_size; the Windows GUI reads the text of the
\* field and takes 10 for a text that is no integer; the Linux GUI reads
\* the text with int(), which raises ValueError for such a text
ConfiguredBatch ==
    IF fe = "gui_windows" THEN (IF IntOk(batch_var) THEN IntVal(batch_var) ELSE 10)
    ELSE IF fe = "gui_linux"
    THEN (IF IntOk(batch_var) THEN IntVal(batch_var) ELSE "ValueError")
    ELSE batch_size

\* C14: the listing of a dry run or preview of a plan of N files has every
\* file of the plan exactly once, in print order, numbered 1..N, each with
\* the number of the batch it belongs to.
C14_PreviewListsWholePlan ==
    listing.kind \in {"dry_run", "preview"}
    => /\ [i \in DOMAIN listing.lines |-> listing.lines[i].file] = found_pdfs
       /\ \A i \in DOMAIN listing.lines : listing.lines[i].n = i
       /\ ConfiguredBatch >= 1
          => \A i \in DOMAIN listing.lines :
                listing.lines[i].batch = <<CeilDiv(i, ConfiguredBatch)>>

\* C15: a missing print command is found out before the run starts and is
\* fatal there: no run hands its first file to the backend and learns only
\* then that the print command does not exist.
C15_BackendCheckedBeforeRun ==
    \A w \in RunIds :
        LET r == runs[w] IN
        /\ r.outcomes # <<>> => r.outcomes[1] # "notfound"
        /\ ~(r.error = "FileNotFoundError" /\ Len(r.submitted) = 1)

\* C16: the configuration is validated before it is used: no run submits a
\* file, and no dry-run listing is written, with a batch size below 1 or a
\* negative delay, and no run is ended part-way by an exception that an
\* invalid batch size or delay raised.
C16_ConfigurationValidated ==
    /\ \A w \in RunIds :
          LET r == runs[w] IN
          /\ r.error \notin {"ValueError", "ZeroDivisionError"}
          /\ r.pc # "start" => r.B >= 1
          /\ fe = "cli_windows" => delay >= 0
    /\ listing.kind \in {"dry_run", "preview"}
       => (ConfiguredBatch >= 1 /\ delay >= 0)

Menus == {"menu_linux", "menu_windows"}

\* C17: no front end discovers, lists or submits files under a path that
\* does not exist or is no directory: no search walks such a path, a search
\* result is only reported for a directory, a menu only stands in a
\* directory, and a command-line run on such a path ends with an error and
\* nothing found, listed or run.
C17_DirectoryValidated ==
    /\ \A i \in DOMAIN searches : isdir(searches[i])
    /\ (fe = "gui_windows" /\ ui = <<"info">> /\ runs = <<>>) => isdir(dir_var)
    /\ fe \in Menus => isdir(current_directory)
    /\ (fe \in Clis /\ mpc = "exited" /\ ~isdir(current_directory))
       => /\ exit_status = 1
          /\ found_pdfs = <<>> /\ listing = NoListing /\ runs = <<>>

\* the key (directory path, filename) of the platform of the front end,
\* lower-cased on Windows
PlatformKey(f) ==
    IF fe \in {"cli_linux", "menu_linux", "gui_linux"} THEN LinuxSortKey(f)
    ELSE WinCliSortKey(f)

\* C18: the print order of every front end is sorted by (directory path,
\* filename): each file's key is at most the key of the file after it, and
\* the tree {A/2.pdf, A/1.pdf, B/1.pdf} is printed A/1.pdf, A/2.pdf, B/1.pdf.
C18_PrintOrderSorted ==
    mpc = "sorted"
    => /\ \A i \in 1..(Len(found_pdfs) - 1) :
            KeyLeq(PlatformKey(found_pdfs[i]), PlatformKey(found_pdfs[i + 1]))
       /\ tree = {File(<< <<"A">> >>, PdfName2), File(<< <<"A">> >>, PdfName1),
                  File(<< <<"B">> >>, PdfName1)}
          => found_pdfs = << File(<< <<"A">> >>, PdfName1),
                             File(<< <<"A">> >>, PdfName2),
                             File(<< <<"B">> >>, PdfName1) >>

\* C19: the sort key orders the discovered files strictly and totally: on
\* the files of a tree the order by key is transitive, any two distinct
\* files have different keys (also under the lower-cased key of the Windows
\* front ends), and in the print order an earlier file has the smaller key.
C19_StrictTotalOrder ==
    mpc = "sorted"
    => /\ \A f, g, h \in tree :
            (KeyLess(PlatformKey(f), PlatformKey(g))
             /\ KeyLess(PlatformKey(g), PlatformKey(h)))
            => KeyLess(PlatformKey(f), PlatformKey(h))
       /\ \A f, g \in tree :
            f # g => \/ KeyLess(PlatformKey(f), PlatformKey(g))
                     \/ KeyLess(PlatformKey(g), PlatformKey(f))
       /\ \A i, j \in DOMAIN found_pdfs :
            i < j => KeyLess(PlatformKey(found_pdfs[i]), PlatformKey(found_pdfs[j]))

\* C20: the ordering step leaves a list in final order as it is, applied
\* twice it gives what it gives applied once, and of an empty tree it gives
\* the empty order.
C20_OrderingIdempotent ==
    mpc \in {"sorted", "resorted"}
    => /\ Ordering(fe, found_pdfs) = found_pdfs
       /\ Ordering(fe, Ordering(fe, os_walk(tree, <<>>)))
          = Ordering(fe, os_walk(tree, <<>>))
       /\ found_pdfs = Ordering(fe, os_walk(tree, <<>>))
       /\ tree = {} => found_pdfs = <<>>

\* C20 witness: the ordering step was applied a second time to a list of
\* three files that the first application had to reorder
C20_Witness ==
    /\ mpc = "resorted"
    /\ Len(found_pdfs) = 3
    /\ found_pdfs # os_walk(tree, <<>>)

\* C21: at the end of a run, in every front end, the number of lines written
\* to the log file that name a file and tell how its print went equals the
\* number of files attempted, whether the attempts succeeded or failed.
C21_EveryAttemptLogged ==
    \A w \in RunIds :
        fe \notin Guis /\ runs[w].pc \in {"done", "dead"}
            => Logged(runs[w]) = Attempted(runs[w])

\* C22: a run over N > 0 files with batch size B >= 1 that was not cancelled
\* and went through its whole plan has taken exactly N - ceil(N/B)
\* inter-file delays: one after every file that is followed by a file of the
\* same batch, none after the last file of a batch or of the run.
C22_InterFileDelays ==
    \A w \in RunIds :
        LET r == runs[w] IN
        (/\ r.pc = "done" /\ ~r.cancelled
         /\ r.plan # <<>> /\ r.submitted = r.plan
         /\ r.B >= 1)
        => r.delays = Len(r.plan) - CeilDiv(Len(r.plan), r.B)

\* the files a run hands to the backend when nothing stops it
OwnFiles(r) ==
    IF fe \in {"cli_linux", "menu_linux", "gui_linux"} THEN Concat(r.batches)
    ELSE r.plan

\* C23: a run started after the earlier runs of the front-end instance have
\* completed or were cancelled starts clean: its counters are 0, nothing is
\* submitted and no cancellation is requested; and its result depends on
\* its own plan and outcomes only: if it ends without an error and without
\* a cancellation request of its own, it has gone through all its files.
C23_FreshStartIsClean ==
    [][/\ Len(runs') > Len(runs) =>
            LET r == runs'[Len(runs')] IN
            /\ r.successful = 0 /\ r.failed = 0 /\ r.submitted = <<>>
            /\ ~r.cancelled
            /\ fe \in Guis => is_printing'
       /\ \A w \in DOMAIN runs' :
            LET r == runs'[w] IN
            (/\ w > 1 /\ r.after_ended
             /\ r.pc = "done" /\ ~r.cancelled /\ r.error = "")
            => r.submitted = OwnFiles(r)]_vars

\* C24: an empty discovery result starts no run: no confirmation prompt is
\* open over an empty file list, and no run goes into its print loop with
\* an empty list of files.
C24_EmptyDiscoveryStartsNoRun ==
    /\ (mpc = "confirm" \/ \E i \in DOMAIN ui : ui[i] = "confirm")
       => found_pdfs # <<>>
    /\ \A w \in RunIds :
         runs[w].pc \notin {"start", "plan", "loop", "dead"} => runs[w].plan # <<>>

\* a file whose name ends with .pdf in any letter case
PdfNamed(f) ==
    LET n == f.name IN
    /\ Len(n) >= 4
    /\ n[Len(n) - 3] = "."
    /\ n[Len(n) - 2] \in {"p", "P"}
    /\ n[Len(n) - 1] \in {"d", "D"}
    /\ n[Len(n)] \in {"f", "F"}

\* C25: the result of discovery holds every file of the tree whose name
\* ends with .pdf in any letter case exactly once, and no other file, in
\* every front end.
C25_DiscoveryExactlyPdfFiles ==
    mpc = "found" =>
        /\ \A f \in tree :
             PdfNamed(f) => Cardinality({i \in DOMAIN found_pdfs : found_pdfs[i] = f}) = 1
        /\ \A i \in DOMAIN found_pdfs :
             found_pdfs[i] \in tree /\ PdfNamed(found_pdfs[i])

\* an explicit yes at the confirmation step of front end f: Yes in the
\* dialog of a GUI; y or yes at the prompt of the Linux command line, JA at
\* the other prompts, in any letter case, blanks around it aside
ExplicitYes(f, a) ==
    IF f \in Guis THEN a = TRUE
    ELSE IF f = "cli_linux" THEN upper(strip(a)) \in { <<"Y">>, <<"Y", "E", "S">> }
    ELSE upper(strip(a)) = <<"J", "A">>

\* C26: no file is submitted without an explicit confirmation of the run:
\* every print run was started by an explicit yes of the user, and the print
\* loop is entered only with such a run; after any other answer, an
\* interrupt or the end of input there is no run and no file is submitted.
C26_NoSubmissionWithoutConfirmation ==
    /\ \A w \in RunIds : ExplicitYes(fe, runs[w].answer)
    /\ (fe \notin Guis /\ mpc = "printing") => runs # <<>>

\* C26 witness: a run of the Windows command line that the user confirmed
\* with " ja" has handed a file to the printer
C26_Witness ==
    /\ fe = "cli_windows"
    /\ \E w \in RunIds : /\ runs[w].answer = <<" ", "j", "a">>
                          /\ runs[w].submitted # <<>>

\* the directory the user of a menu or GUI front end has selected
Selected == IF fe \in Guis THEN dir_var ELSE current_directory

\* C27: in the menu and GUI front ends a print run is started on the list
\* of files discovered under the directory that is selected at that
\* moment, never on the list of a directory selected before.
C27_RunListOfSelectedDirectory ==
    [][(fe \in Guis \cup Menus /\ Len(runs') > Len(runs))
       => found_pdfs = find_pdf_files(Selected)]_vars

\* C28: the list that the walk returns is already in print order: it is
\* the same list as its sort by (directory path, file name), so that the
\* Windows menu, which prints the walk's list as it is, prints in the order
\* of the Windows command line, which sorts it.
C28_WalkOrderIsSortedOrder ==
    mpc = "walked" =>
        /\ found_pdfs = sort_pdf_files(found_pdfs)
        /\ Ordering("menu_windows", found_pdfs) = Ordering("cli_windows", found_pdfs)

\* a text that the batch-size prompt of menu f accepts
ValidSize(f, text) ==
    /\ strip(text) # <<>>
    /\ IntOk(text)
    /\ 1 <= IntVal(text)
    /\ IntVal(text) <= (IF f = "menu_linux" THEN 100 ELSE 50)

\* C29: in the menu front ends the configured batch size is a valid
\* positive value whatever the user types at the settings prompts: it stays
\* within 1..100 in the Linux menu and within 1..50 in the Windows menu,
\* and an input that is refused leaves it as it was.  In both menus the
\* value changes only to the number of a text the prompt accepts, a newly
\* typed text that the prompt accepts sets it to its number, and a newly
\* typed text that it refuses changes nothing.
C29_MenuBatchSizeValid ==
    [][/\ fe = "menu_linux" =>
            (batch_size' \in 1..100 /\ \A w \in DOMAIN runs' : runs'[w].B \in 1..100)
       /\ fe = "menu_windows" =>
            (batch_size' \in 1..50 /\ \A w \in DOMAIN runs' : runs'[w].B \in 1..50)
       /\ (fe = "menu_windows" /\ mpc' = "configure") => batch_size' = batch_size
       /\ (fe \in Menus /\ batch_size' # batch_size)
          => (ValidSize(fe, size_text') /\ batch_size' = IntVal(size_text'))
       /\ (fe \in Menus /\ size_text' # size_text)
          => batch_size' = (IF ValidSize(fe, size_text') THEN IntVal(size_text')
                            ELSE batch_size)]_vars

\* C29 witness: the Linux menu, with the batch size set to 2 before, has
\* refused the input 101 and the value is still 2
C29_Witness ==
    /\ fe = "menu_linux"
    /\ size_text = <<"1", "0", "1">>
    /\ batch_size = 2

====
